---- MODULE Spec2Model ----
(***************************************************************************)
(* Model of the prompter CLI: configuration manager, prompt assembly       *)
(* orchestrator and output dispatch.  Text is modelled as a sequence of    *)
(* one-character strings so that prefix tests, substring tests, trimming   *)
(* and joining are computed the way the Go code computes them.             *)
(***************************************************************************)
EXTENDS Integers, Sequences, FiniteSets, TLC

VARIABLES
    world,    \* the machine: config file, environment, prompts directory
    mgr,      \* config.Manager: what viper has read in, and the flags set
    script,   \* what a caller of the manager API is going to do
    cstep,    \* position of that caller
    cres,     \* results the manager API returned
    pc,       \* position of main / app.Run
    cli,      \* the command line
    request,  \* models.PromptRequest
    cfg,      \* the Config app.Run holds
    runErr,   \* the error the run ended with
    generated, \* the text GeneratePrompt returned
    gen,      \* what GeneratePrompt rendered
    log,      \* side effects in the order they happened
    tplFS,    \* the template files under the prompts location
    tplSeen,  \* whether the run has read them yet
    helper,   \* a call of a template helper function: its input and result
    sel       \* a selection by number key: the keys typed, the bytes still
              \* to be read, and what the selection returned

\* what a run of the program leaves alone
apiVars == <<script, cstep, cres, helper, sel>>

\* what a caller of the manager API leaves alone
runVars == <<pc, cli, request, cfg, runErr, generated, gen, log, tplFS, tplSeen, helper, sel>>

vars == <<world, mgr, script, cstep, cres, pc, cli, request, cfg, runErr, generated, gen, log, tplFS, tplSeen, helper, sel>>

(***************************************************************************)
(* Bounds of the model.                                                    *)
(***************************************************************************)
\* number of configuration inputs (file keys, environment variables,
\* SetFlag calls, disk conditions) that differ from a pristine setup
MaxSettings == 2

\* number of flags given on the command line
MaxFlags == 2

(***************************************************************************)
(* Text literals of the program.                                           *)
(***************************************************************************)
Empty == <<>>

TargetClipboard == <<"c", "l", "i", "p", "b", "o", "a", "r", "d">>

TargetStdout == <<"s", "t", "d", "o", "u", "t">>

FilePrefix == <<"f", "i", "l", "e", ":">>

StrategyGit == <<"g", "i", "t">>

StrategyFilesystem == <<"f", "i", "l", "e", "s", "y", "s", "t", "e", "m">>

DefaultEditor == <<"n", "v", "i", "m">>

DefaultPromptsLocation == <<"~", "/", ".", "c", "o", "n", "f", "i", "g", "/", "p", "r", "o", "m", "p", "t", "e", "r">>

DefaultFixFile == <<"/", "t", "m", "p", "/", "p", "r", "o", "m", "p", "t", "e", "r", "-", "f", "i", "x", ".", "t", "x", "t">>

TildeSlash == <<"~", "/">>

\* os.UserHomeDir() of the modelled machine
HomeDir == <<"/", "h">>

\* filepath.Join(homeDir, ".config", "prompter", "config.toml")
DefaultConfigPath == <<"/", "h", "/", ".", "c", "o", "n", "f", "i", "g", "/", "p", "r", "o", "m", "p", "t", "e", "r", "/", "c", "o", "n", "f", "i", "g", ".", "t", "o", "m", "l">>

PartSeparator == <<"\n", "\n">>

Newline == <<"\n">>

ReferencingFiles == <<"R", "e", "f", "e", "r", "e", "n", "c", "i", "n", "g", " ", "f", "i", "l", "e", "s", ":">>

ReferencingDir == <<"R", "e", "f", "e", "r", "e", "n", "c", "i", "n", "g", " ", "d", "i", "r", ":">>

PleaseFix == <<"P", "l", "e", "a", "s", "e", " ", "f", "i", "x">>

OutputMsgPrefix == <<"f", "a", "i", "l", "e", "d", " ", "t", "o", " ", "o", "u", "t", "p", "u", "t", " ", "t", "o", " ", "t", "a", "r", "g", "e", "t", " ", "'">>

NotFoundText == <<"n", "o", "t", " ", "f", "o", "u", "n", "d">>

TemplateNotFoundPrefix == <<"t", "e", "m", "p", "l", "a", "t", "e", " ", "n", "o", "t", " ", "f", "o", "u", "n", "d", ":", " ">>

LoadTemplatePrefix == <<"f", "a", "i", "l", "e", "d", " ", "t", "o", " ", "l", "o", "a", "d", " ", "t", "e", "m", "p", "l", "a", "t", "e", " ">>

ParseErrPrefix == <<"f", "a", "i", "l", "e", "d", " ", "t", "o", " ", "p", "a", "r", "s", "e", " ", "t", "e", "m", "p", "l", "a", "t", "e", " ">>

ExecErrPrefix == <<"f", "a", "i", "l", "e", "d", " ", "t", "o", " ", "e", "x", "e", "c", "u", "t", "e", " ", "t", "e", "m", "p", "l", "a", "t", "e", " ">>

ExecErrInner == <<"f", "a", "i", "l", "e", "d", " ", "t", "o", " ", "e", "x", "e", "c", "u", "t", "e", " ", "t", "e", "m", "p", "l", "a", "t", "e", ":", " ">>

ReadErrPrefix == <<"f", "a", "i", "l", "e", "d", " ", "t", "o", " ", "r", "e", "a", "d", " ", "t", "e", "m", "p", "l", "a", "t", "e", " ", "f", "i", "l", "e", " ">>

TplMsgPrefix == <<"f", "a", "i", "l", "e", "d", " ", "t", "o", " ", "p", "r", "o", "c", "e", "s", "s", " ", "t", "e", "m", "p", "l", "a", "t", "e", " ", "'">>

FixMsgPrefix == <<"f", "i", "x", " ", "m", "o", "d", "e", " ", "f", "a", "i", "l", "e", "d", " ", "w", "i", "t", "h", " ", "f", "i", "l", "e", " ", "'">>

ConfigMsg == <<"f", "a", "i", "l", "e", "d", " ", "t", "o", " ", "l", "o", "a", "d", " ", "c", "o", "n", "f", "i", "g", "u", "r", "a", "t", "i", "o", "n">>

ValidationMsgPrefix == <<"v", "a", "l", "i", "d", "a", "t", "i", "o", "n", " ", "f", "a", "i", "l", "e", "d", " ", "f", "o", "r", " ">>

DotMd == <<".", "m", "d">>

DotDefaultDot == <<".", "d", "e", "f", "a", "u", "l", "t", ".">>

DotDefault == <<".", "d", "e", "f", "a", "u", "l", "t">>

Dot == <<".">>

Slash == <<"/">>

NoneOption == <<"N", "o", "n", "e">>

ColonSpace == <<":", " ">>

Quote == <<"'">>

SpaceParen == <<" ", "(">>

CloseParen == <<")">>

ParseText == <<"p", "a", "r", "s", "e">>

SyntaxText == <<"s", "y", "n", "t", "a", "x">>

EditorText == <<"e", "d", "i", "t", "o", "r">>

EmptyText == <<"e", "m", "p", "t", "y">>

DoesNotExistText == <<"d", "o", "e", "s", " ", "n", "o", "t", " ", "e", "x", "i", "s", "t">>

PermissionText == <<"p", "e", "r", "m", "i", "s", "s", "i", "o", "n">>

FieldBasePrompt == <<"b", "a", "s", "e", "_", "p", "r", "o", "m", "p", "t">>

FieldTarget == <<"t", "a", "r", "g", "e", "t">>

FieldConfigPath == <<"c", "o", "n", "f", "i", "g", "_", "p", "a", "t", "h">>

FieldTemplateName == <<"t", "e", "m", "p", "l", "a", "t", "e", "_", "n", "a", "m", "e">>

ReasonRequired == <<"r", "e", "q", "u", "i", "r", "e", "d", " ", "i", "n", " ", "n", "o", "n", "i", "n", "t", "e", "r", "a", "c", "t", "i", "v", "e", " ", "m", "o", "d", "e">>

ReasonTarget == <<"m", "u", "s", "t", " ", "b", "e", " ", "'", "c", "l", "i", "p", "b", "o", "a", "r", "d", "'", ",", " ", "'", "s", "t", "d", "o", "u", "t", "'", ",", " ", "o", "r", " ", "'", "f", "i", "l", "e", ":", "/", "p", "a", "t", "h", "'">>

ReasonNoFile == <<"f", "i", "l", "e", " ", "d", "o", "e", "s", " ", "n", "o", "t", " ", "e", "x", "i", "s", "t">>

ReasonPreEmpty == <<"p", "r", "e", "-", "t", "e", "m", "p", "l", "a", "t", "e", " ", "n", "a", "m", "e", " ", "c", "a", "n", "n", "o", "t", " ", "b", "e", " ", "e", "m", "p", "t", "y">>

ReasonPostEmpty == <<"p", "o", "s", "t", "-", "t", "e", "m", "p", "l", "a", "t", "e", " ", "n", "a", "m", "e", " ", "c", "a", "n", "n", "o", "t", " ", "b", "e", " ", "e", "m", "p", "t", "y">>

ReasonUnsupported == <<"u", "n", "s", "u", "p", "p", "o", "r", "t", "e", "d", " ", "o", "u", "t", "p", "u", "t", " ", "t", "a", "r", "g", "e", "t">>

CauseNoSuchFile == <<"n", "o", " ", "s", "u", "c", "h", " ", "f", "i", "l", "e", " ", "o", "r", " ", "d", "i", "r", "e", "c", "t", "o", "r", "y">>

CauseFixEmpty == <<"f", "i", "x", " ", "f", "i", "l", "e", " ", "i", "s", " ", "e", "m", "p", "t", "y">>

CauseGetLast == <<"f", "a", "i", "l", "e", "d", " ", "t", "o", " ", "g", "e", "t", " ", "l", "a", "s", "t", " ", "c", "o", "m", "m", "a", "n", "d", ":", " ">>

CauseNoHistory == <<"n", "o", " ", "s", "h", "e", "l", "l", " ", "h", "i", "s", "t", "o", "r", "y", " ", "f", "o", "u", "n", "d">>

CauseNoSuitable == <<"n", "o", " ", "s", "u", "i", "t", "a", "b", "l", "e", " ", "c", "o", "m", "m", "a", "n", "d", " ", "f", "o", "u", "n", "d", " ", "i", "n", " ", "h", "i", "s", "t", "o", "r", "y">>

CauseConfirm == <<"f", "a", "i", "l", "e", "d", " ", "t", "o", " ", "g", "e", "t", " ", "u", "s", "e", "r", " ", "c", "o", "n", "f", "i", "r", "m", "a", "t", "i", "o", "n", ":", " ">>

CauseCancelled == <<"s", "e", "l", "e", "c", "t", "i", "o", "n", " ", "c", "a", "n", "c", "e", "l", "l", "e", "d">>

CauseDeclined == <<"u", "s", "e", "r", " ", "d", "e", "c", "l", "i", "n", "e", "d", " ", "t", "o", " ", "r", "e", "-", "r", "u", "n", " ", "c", "o", "m", "m", "a", "n", "d">>

CauseLaunch == <<"f", "a", "i", "l", "e", "d", " ", "t", "o", " ", "l", "a", "u", "n", "c", "h", " ", "e", "d", "i", "t", "o", "r", " ">>

PrompterWord == <<"p", "r", "o", "m", "p", "t", "e", "r">>

Hash == <<"#">>

Colon == <<":">>

DollarSpace == <<"$", " ">>

FlagConflictMsg == <<"c", "a", "n", "n", "o", "t", " ", "u", "s", "e", " ", "b", "o", "t", "h", " ", "-", "-", "i", "n", "t", "e", "r", "a", "c", "t", "i", "v", "e", " ", "a", "n", "d", " ", "-", "-", "y", "e", "s", " ", "f", "l", "a", "g", "s">>

ClipEmptyMsg == <<"c", "l", "i", "p", "b", "o", "a", "r", "d", " ", "i", "s", " ", "e", "m", "p", "t", "y">>

ClipReadMsg == <<"c", "l", "i", "p", "b", "o", "a", "r", "d", " ", "u", "n", "a", "v", "a", "i", "l", "a", "b", "l", "e">>

InterruptMsg == <<"i", "n", "t", "e", "r", "r", "u", "p", "t">>

ConfigReadMsg == <<"f", "a", "i", "l", "e", "d", " ", "t", "o", " ", "r", "e", "a", "d", " ", "c", "o", "n", "f", "i", "g", " ", "f", "i", "l", "e">>

EdVi == <<"v", "i">>

CauseSink == <<"w", "r", "i", "t", "e", " ", "f", "a", "i", "l", "e", "d">>

(***************************************************************************)
(* Input values the model draws from.                                      *)
(***************************************************************************)
ExplicitConfigPath == <<"/", "c">>

PathP == <<"/", "p">>

PathTildeP == <<"~", "/", "p">>

PathL == <<"/", "l">>

PathF == <<"/", "f">>

PathE == <<"/", "e">>

EdVim == <<"v", "i", "m">>

EdEmacs == <<"e", "m", "a", "c", "s">>

EdNano == <<"n", "a", "n", "o">>

NameT == <<"t">>

NameP == <<"p">>

NameX == <<"x">>

NameE == <<"e">>

StrategySvn == <<"s", "v", "n">>

TargetFileO == <<"f", "i", "l", "e", ":", "o">>

TargetBogus == <<"b", "o", "g", "u", "s">>

TrueText == <<"t", "r", "u", "e">>

FixThisBug == <<"F", "i", "x", " ", "t", "h", "i", "s", " ", "b", "u", "g">>

HistZsh == <<":", " ", "1", ":", "0", ";", "m", "a", "k", "e", "\n", "p", "r", "o", "m", "p", "t", "e", "r", " ", "-", "f", "\n">>

HistBash == <<"l", "s", "\n", "#", " ", "x", "\n">>

HistSelf == <<"p", "r", "o", "m", "p", "t", "e", "r", " ", "-", "f", "\n">>

Cwd == <<"/", "w">>

FileA == <<"a", ".", "g", "o">>

Blank == <<" ">>

ClipText == <<"c", "l", "i", "p">>

PreText == <<"P", "R", "E">>

PostText == <<"P", "O", "S", "T">>

FileTmd == <<"T", ".", "m", "d">>

FileTLowerMd == <<"t", ".", "m", "d">>

FilePmd == <<"p", ".", "m", "d">>

FileNDefaultMd == <<"n", ".", "d", "e", "f", "a", "u", "l", "t", ".", "m", "d">>

FileADefaultBMd == <<"a", ".", "d", "e", "f", "a", "u", "l", "t", ".", "b", ".", "m", "d">>

CmdMake == <<"m", "a", "k", "e">>

CmdOut == <<"F", "A", "I", "L">>

FixMdText == <<"F", "i", "x", " ", "i", "t", "\n">>

FixFileText == <<" ", "b", "o", "o", "m", "\n">>

HistMention == <<"m", "a", "k", "e", "\n", "v", "i", " ", "p", "r", "o", "m", "p", "t", "e", "r", ".", "g", "o", "\n">>

HistZshPlain == <<"e", "c", "h", "o", " ", "a", ":", "b", ";", " ", "l", "s", "\n">>

FixFileBlank == <<" ", "\n">>

\* a fix.md of white space only
FixMdBlank == <<" ", "\n">>

GoTestText == <<"$", " ", "g", "o", " ", "t", "e", "s", "t", " ", ".", "/", ".", ".", ".", "\n", "\n", "F", "A", "I", "L">>

(***************************************************************************)
(* Go's strings package, on character sequences.                           *)
(***************************************************************************)
HasPrefix(s, p) == Len(s) >= Len(p) /\ SubSeq(s, 1, Len(p)) = p

HasSuffix(s, p) == Len(s) >= Len(p) /\ SubSeq(s, Len(s) - Len(p) + 1, Len(s)) = p

Contains(s, sub) == \E i \in 1..(Len(s) - Len(sub) + 1) : SubSeq(s, i, i + Len(sub) - 1) = sub

IsSpace(c) == c \in {" ", "\n", "\t", "\r"}

RECURSIVE TrimLeftSpace(_)
TrimLeftSpace(s) == IF s # <<>> /\ IsSpace(Head(s)) THEN TrimLeftSpace(Tail(s)) ELSE s

RECURSIVE TrimRightSpace(_)
TrimRightSpace(s) == IF s # <<>> /\ IsSpace(s[Len(s)]) THEN TrimRightSpace(SubSeq(s, 1, Len(s) - 1)) ELSE s

TrimSpace(s) == TrimRightSpace(TrimLeftSpace(s))

RECURSIVE Join(_, _)
Join(parts, sep) ==
    IF parts = <<>> THEN <<>>
    ELSE IF Len(parts) = 1 THEN parts[1]
    ELSE parts[1] \o sep \o Join(Tail(parts), sep)

\* all subsets of U with at most n elements
RECURSIVE SubsetsUpTo(_, _)
SubsetsUpTo(U, n) ==
    IF n = 0 THEN {{}}
    ELSE LET prev == SubsetsUpTo(U, n - 1)
         IN  prev \cup {S \cup {x} : S \in prev, x \in U}

(***************************************************************************)
(* Configuration: interfaces.Config and config.Manager.                    *)
(***************************************************************************)
Keys == {"prompts_location", "local_prompts_location", "editor", "default_pre",
         "default_post", "fix_file", "directory_strategy", "target",
         "interactive_default"}

\* a configuration source: which keys it supplies and with what text
Unset == [set |-> FALSE, val |-> Empty]

NoSource == [k \in Keys |-> Unset]

\* setDefaults: the keys viper knows a default for
Defaults ==
    [k \in Keys |->
        CASE k = "prompts_location"   -> [set |-> TRUE, val |-> DefaultPromptsLocation]
          [] k = "editor"             -> [set |-> TRUE, val |-> DefaultEditor]
          [] k = "default_pre"        -> [set |-> TRUE, val |-> Empty]
          [] k = "default_post"       -> [set |-> TRUE, val |-> Empty]
          [] k = "fix_file"           -> [set |-> TRUE, val |-> DefaultFixFile]
          [] k = "directory_strategy" -> [set |-> TRUE, val |-> StrategyGit]
          [] k = "target"             -> [set |-> TRUE, val |-> TargetClipboard]
          [] OTHER                    -> Unset]

\* NewManager: a fresh viper with defaults only and no flags
NewManager == [file |-> NoSource, flags |-> NoSource]

\* expandPath: "~/x" becomes <home>/x, anything else is returned as is
expandPath(path) ==
    IF ~HasPrefix(path, TildeSlash) THEN path
    ELSE IF Len(path) = 2 THEN HomeDir
    ELSE HomeDir \o <<"/">> \o SubSeq(path, 3, Len(path))

\* viper.GetString with AutomaticEnv: a non-empty PROMPTER_<KEY> variable,
\* else the value of the config file read in, else the default, else ""
ViperGetString(m, env, key) ==
    IF env[key].set /\ env[key].val # Empty THEN env[key].val
    ELSE IF m.file[key].set THEN m.file[key].val
    ELSE IF Defaults[key].set THEN Defaults[key].val
    ELSE Empty

\* the zero value of interfaces.Config
ZeroConfig ==
    [PromptsLocation |-> Empty, LocalPromptsLocation |-> Empty, Editor |-> Empty,
     DefaultPre |-> Empty, DefaultPost |-> Empty, FixFile |-> Empty,
     DirectoryStrategy |-> Empty, Target |-> Empty, InteractiveDefault |-> FALSE,
     isNil |-> FALSE]

\* a nil *interfaces.Config
NilConfig == [ZeroConfig EXCEPT !.isNil = TRUE]

\* getConfigFromViper: the struct literal names seven fields; the other two
\* keep Go's zero value
getConfigFromViper(m, env) ==
    [ZeroConfig EXCEPT
        !.PromptsLocation   = expandPath(ViperGetString(m, env, "prompts_location")),
        !.Editor            = ViperGetString(m, env, "editor"),
        !.DefaultPre        = ViperGetString(m, env, "default_pre"),
        !.DefaultPost       = ViperGetString(m, env, "default_post"),
        !.FixFile           = expandPath(ViperGetString(m, env, "fix_file")),
        !.DirectoryStrategy = ViperGetString(m, env, "directory_strategy"),
        !.Target            = ViperGetString(m, env, "target")]

\* one flag of applyFlagOverrides: used when present and a non-empty string
FlagGiven(m, key) == m.flags[key].set /\ m.flags[key].val # Empty

applyFlagOverrides(m, config) ==
    [config EXCEPT
        !.PromptsLocation   = IF FlagGiven(m, "prompts_location")
                              THEN expandPath(m.flags["prompts_location"].val) ELSE @,
        !.Editor            = IF FlagGiven(m, "editor") THEN m.flags["editor"].val ELSE @,
        !.DefaultPre        = IF FlagGiven(m, "default_pre") THEN m.flags["default_pre"].val ELSE @,
        !.DefaultPost       = IF FlagGiven(m, "default_post") THEN m.flags["default_post"].val ELSE @,
        !.FixFile           = IF FlagGiven(m, "fix_file")
                              THEN expandPath(m.flags["fix_file"].val) ELSE @,
        !.DirectoryStrategy = IF FlagGiven(m, "directory_strategy")
                              THEN m.flags["directory_strategy"].val ELSE @,
        !.Target            = IF FlagGiven(m, "target") THEN m.flags["target"].val ELSE @]

\* Manager.Resolve
Resolve(m, env) == applyFlagOverrides(m, getConfigFromViper(m, env))

\* the config file found at a path: the disk holds one config file
MissingFile == [at |-> DefaultConfigPath, state |-> "missing", vals |-> NoSource]

FileAt(w, path) == IF w.file.at = path /\ w.file.state # "missing" THEN w.file ELSE MissingFile

\* Manager.Load: the path defaults to ~/.config/prompter/config.toml, a file
\* that does not exist leaves the defaults, a file that cannot be read or
\* parsed is an error, otherwise viper holds the file's keys
LoadPath(path) == IF path = Empty THEN DefaultConfigPath ELSE expandPath(path)

Load(m, w, path) ==
    LET f == FileAt(w, LoadPath(path))
    IN  IF f.state = "missing"
        THEN [ok |-> TRUE, mgr |-> m, cfg |-> getConfigFromViper(m, w.env)]
        ELSE IF f.state = "corrupt"
        THEN [ok |-> FALSE, mgr |-> m, cfg |-> NilConfig]
        ELSE LET m2 == [m EXCEPT !.file = f.vals]
             IN  [ok |-> TRUE, mgr |-> m2, cfg |-> getConfigFromViper(m2, w.env)]

\* the two checks of Validate on the enumerated fields
ValidStrategy(s) == s \in {StrategyGit, StrategyFilesystem}

ValidTarget(t) == t \in {TargetClipboard, TargetStdout} \/ HasPrefix(t, FilePrefix)

\* Validate with the check of the target left out
ValidateWithoutTargetCheck(config, dir) ==
    IF config.isNil THEN "nil"
    ELSE IF ~ValidStrategy(config.DirectoryStrategy) THEN "directory_strategy"
    ELSE IF config.PromptsLocation # Empty /\ dir = "blocked" THEN "prompts_location"
    ELSE ""

\* Manager.Validate: "" when the config is accepted, else the reason.  The
\* prompts directory is created when it is absent (dir = "creatable") and
\* the call fails when it can be neither read nor created (dir = "blocked")
Validate(config, dir) ==
    IF config.isNil THEN "nil"
    ELSE IF ~ValidStrategy(config.DirectoryStrategy) THEN "directory_strategy"
    ELSE IF ~ValidTarget(config.Target) THEN "target"
    ELSE IF config.PromptsLocation # Empty /\ dir = "blocked" THEN "prompts_location"
    ELSE ""

\* the directory after Validate: MkdirAll ran when every earlier check passed
DirAfterValidate(config, dir) ==
    IF ~config.isNil /\ ValidStrategy(config.DirectoryStrategy) /\ ValidTarget(config.Target)
       /\ config.PromptsLocation # Empty /\ dir = "creatable"
    THEN "exists" ELSE dir

\* the end of loadConfiguration: the outcome of Validate decides
validatedConfiguration(l, c, v, dirAfter) ==
    IF v # "" THEN [ok |-> FALSE, why |-> v, cfg |-> NilConfig, mgr |-> l.mgr, dir |-> dirAfter]
    ELSE [ok |-> TRUE, why |-> "", cfg |-> c, mgr |-> l.mgr, dir |-> dirAfter]

\* loadConfiguration after Load succeeded: Resolve, then Validate
resolvedConfiguration(l, c, dir) ==
    validatedConfiguration(l, c, Validate(c, dir), DirAfterValidate(c, dir))

\* loadConfiguration after Load
loadedConfiguration(l, w) ==
    IF ~l.ok THEN [ok |-> FALSE, why |-> "load", cfg |-> NilConfig, mgr |-> l.mgr, dir |-> w.promptsDir]
    ELSE resolvedConfiguration(l, Resolve(l.mgr, w.env), w.promptsDir)

\* Orchestrator.loadConfiguration: Load, Resolve, Validate in this order
loadConfiguration(m, w, configPath) == loadedConfiguration(Load(m, w, configPath), w)

(***************************************************************************)
(* More of Go's strings and path/filepath packages.                        *)
(***************************************************************************)
Max(S) == CHOOSE x \in S : \A y \in S : y <= x

Min(S) == CHOOSE x \in S : \A y \in S : x <= y

TrimSuffix(s, suf) == IF HasSuffix(s, suf) THEN SubSeq(s, 1, Len(s) - Len(suf)) ELSE s

\* filepath.Ext: the suffix that starts at the last dot, "" without a dot
Ext(filename) ==
    LET dots == {i \in 1..Len(filename) : filename[i] = "."}
    IN  IF dots = {} THEN Empty ELSE SubSeq(filename, Max(dots), Len(filename))

UpperLetters == <<"A", "B", "C", "D", "E", "F", "G", "H", "I", "J", "K", "L", "M",
                  "N", "O", "P", "Q", "R", "S", "T", "U", "V", "W", "X", "Y", "Z">>

LowerLetters == <<"a", "b", "c", "d", "e", "f", "g", "h", "i", "j", "k", "l", "m",
                  "n", "o", "p", "q", "r", "s", "t", "u", "v", "w", "x", "y", "z">>

ToLower(c) ==
    IF \E i \in 1..Len(UpperLetters) : UpperLetters[i] = c
    THEN LowerLetters[CHOOSE i \in 1..Len(UpperLetters) : UpperLetters[i] = c]
    ELSE c

\* strings.EqualFold on the letters of the model
EqualFold(a, b) == Len(a) = Len(b) /\ \A i \in 1..Len(a) : ToLower(a[i]) = ToLower(b[i])

\* strings.Split(s, "\n")
RECURSIVE SplitLines(_)
SplitLines(s) ==
    LET nl == {i \in 1..Len(s) : s[i] = "\n"}
    IN  IF nl = {} THEN <<s>>
        ELSE <<SubSeq(s, 1, Min(nl) - 1)>> \o SplitLines(SubSeq(s, Min(nl) + 1, Len(s)))

\* strings.SplitN(s, sep, 2) for a one-character separator
SplitN2(s, sep) ==
    LET at == {i \in 1..Len(s) : s[i] = sep}
    IN  IF at = {} THEN <<s>>
        ELSE <<SubSeq(s, 1, Min(at) - 1), SubSeq(s, Min(at) + 1, Len(s))>>

\* filepath.Join of a directory and one element
JoinPath(dir, elem) == IF dir = Empty THEN elem ELSE dir \o Slash \o elem

\* filepath.Abs with the working directory of the model
Abs(path) == IF HasPrefix(path, Slash) THEN path ELSE JoinPath(Cwd, path)

(***************************************************************************)
(* orchestrator/errors.go: the structured errors.  An error is a record of *)
(* its Type (kind), its Message, the text of its cause and the guidance    *)
(* the constructor chose, named by a tag per guidance text.                *)
(***************************************************************************)
NoError == [kind |-> "none", msg |-> Empty, cause |-> Empty, guidance |-> <<>>]

\* an error that is not a *PrompterError (fmt.Errorf, os errors)
PlainError(text) == [kind |-> "plain", msg |-> text, cause |-> Empty, guidance |-> <<>>]

NewConfigurationError(message, cause) ==
    [kind |-> "ConfigurationInvalid", msg |-> message, cause |-> cause,
     guidance |-> IF Contains(message, PermissionText) THEN <<"config-permissions">>
                  ELSE IF Contains(message, NotFoundText) \/ Contains(message, DoesNotExistText)
                  THEN <<"config-missing">>
                  ELSE <<"config-syntax">>]

NewTemplateError(templateName, cause) ==
    [kind |-> "TemplateInvalid", msg |-> TplMsgPrefix \o templateName \o Quote, cause |-> cause,
     guidance |-> IF Contains(cause, NotFoundText) THEN <<"template-not-found">>
                  ELSE IF Contains(cause, ParseText) \/ Contains(cause, SyntaxText)
                  THEN <<"template-syntax">>
                  ELSE <<"template-exists">>]

NewFixModeError(fixFile, cause) ==
    [kind |-> "FixModeInvalid", msg |-> FixMsgPrefix \o fixFile \o Quote, cause |-> cause,
     guidance |-> IF Contains(cause, NotFoundText) \/ Contains(cause, DoesNotExistText)
                  THEN <<"fix-file-missing">>
                  ELSE IF Contains(cause, EmptyText) THEN <<"fix-file-empty">>
                  ELSE <<"fix-capture">>]

NewOutputError(target, cause) ==
    [kind |-> "OutputFailed", msg |-> OutputMsgPrefix \o target \o Quote, cause |-> cause,
     guidance |-> IF target = TargetClipboard THEN <<"clipboard-access">>
                  ELSE IF HasPrefix(target, FilePrefix) THEN <<"file-write">>
                  ELSE IF Contains(cause, EditorText) THEN <<"editor-launch">>
                  ELSE <<"output-target">>]

NewValidationError(field, value, reason) ==
    [kind |-> "ValidationFailed",
     msg |-> ValidationMsgPrefix \o field \o ColonSpace \o value \o SpaceParen \o reason \o CloseParen,
     cause |-> Empty,
     guidance |-> IF field = FieldBasePrompt THEN <<"validation-base-prompt">>
                  ELSE IF field = FieldTarget THEN <<"validation-target">>
                  ELSE IF field = FieldConfigPath THEN <<"validation-config-path">>
                  ELSE IF field = FieldTemplateName THEN <<"validation-template-name">>
                  ELSE <<"validation-format">>]

\* recoverFromConfigError: ~/.config/prompter is created when it is absent
recoverFromConfigError(err, configDir) ==
    IF configDir = "exists" THEN err
    ELSE IF configDir = "blocked" THEN [err EXCEPT !.guidance = @ \o <<"config-dir-failed">>]
    ELSE [err EXCEPT !.guidance = @ \o <<"config-dir-created">>]

recoverFromTemplateError(err) ==
    IF Contains(err.msg, NotFoundText) THEN [err EXCEPT !.guidance = @ \o <<"omit-template">>] ELSE err

recoverFromOutputError(err) ==
    IF Contains(err.msg, TargetClipboard) THEN [err EXCEPT !.guidance = @ \o <<"try-stdout">>] ELSE err

\* RecoverFromError: nil stays nil, an error that is not a PrompterError is
\* wrapped as "unknown error", the others get their recovery guidance
RecoverFromError(err, configDir) ==
    IF err.kind = "none" THEN err
    ELSE IF err.kind = "plain"
    THEN [kind |-> "unknown", msg |-> err.msg, cause |-> err.msg, guidance |-> <<"unexpected">>]
    ELSE IF err.kind = "ConfigurationInvalid" THEN recoverFromConfigError(err, configDir)
    ELSE IF err.kind = "TemplateNotFound" THEN recoverFromTemplateError(err)
    ELSE IF err.kind = "OutputFailed" THEN recoverFromOutputError(err)
    ELSE err

\* IsRecoverableError that knows no recoverable output error
IsRecoverableErrorTemplatesOnly(err) ==
    IF err.kind \in {"none", "plain"} THEN FALSE
    ELSE err.kind = "TemplateNotFound"

IsRecoverableError(err) ==
    IF err.kind \in {"none", "plain"} THEN FALSE
    ELSE IF err.kind = "TemplateNotFound" THEN TRUE
    ELSE IF err.kind = "OutputFailed" THEN Contains(err.msg, TargetClipboard)
    ELSE FALSE

\* the state of ~/.config/prompter on a machine
ConfigDirOf(w) == IF w.file.at = DefaultConfigPath /\ w.file.state # "missing" THEN "exists" ELSE "creatable"

(***************************************************************************)
(* template.Processor.  The files under the prompts location are a record  *)
(* of the pre/ and post/ directories (whether each exists and its entries  *)
(* in ReadDir order) and of fix.md.  An entry is a file name and what      *)
(* text/template makes of its content.                                     *)
(***************************************************************************)
ParseDetail == <<"u", "n", "e", "x", "p", "e", "c", "t", "e", "d", " ", "E", "O", "F">>

ExecDetail == <<"n", "i", "l", " ", "p", "o", "i", "n", "t", "e", "r">>

DirPre == <<"p", "r", "e">>

DirPost == <<"p", "o", "s", "t">>

NoEntry == [file |-> Empty, parses |-> FALSE, executes |-> FALSE, out |-> Empty]

\* the entries discoverTemplate walks through: pre/ first, then post/
ScanOrder(fs, promptsLocation) ==
    [i \in 1..(IF fs.pre.exists THEN Len(fs.pre.entries) ELSE 0) |->
        [path |-> JoinPath(JoinPath(promptsLocation, DirPre), fs.pre.entries[i].file),
         entry |-> fs.pre.entries[i]]]
    \o
    [i \in 1..(IF fs.post.exists THEN Len(fs.post.entries) ELSE 0) |->
        [path |-> JoinPath(JoinPath(promptsLocation, DirPost), fs.post.entries[i].file),
         entry |-> fs.post.entries[i]]]

\* discoverTemplate that compares the stem with the name letter by letter
discoverTemplateExact(fs, promptsLocation, name) ==
    LET all == ScanOrder(fs, promptsLocation)
        hits == {i \in 1..Len(all) : TrimSuffix(all[i].entry.file, Ext(all[i].entry.file)) = name}
    IN  IF hits = {}
        THEN [ok |-> FALSE, path |-> Empty, cause |-> TemplateNotFoundPrefix \o name]
        ELSE [ok |-> TRUE, path |-> all[Min(hits)].path, cause |-> Empty]

\* discoverTemplate: the first entry whose stem equals the name, letter case
\* ignored
discoverTemplate(fs, promptsLocation, name) ==
    LET all == ScanOrder(fs, promptsLocation)
        hits == {i \in 1..Len(all) : EqualFold(TrimSuffix(all[i].entry.file, Ext(all[i].entry.file)), name)}
    IN  IF hits = {}
        THEN [ok |-> FALSE, path |-> Empty, cause |-> TemplateNotFoundPrefix \o name]
        ELSE [ok |-> TRUE, path |-> all[Min(hits)].path, cause |-> Empty]

\* loadTemplateFromPath: read the file, then parse it
loadTemplateFromPath(fs, promptsLocation, path) ==
    LET all == ScanOrder(fs, promptsLocation)
        at == {i \in 1..Len(all) : all[i].path = path}
    IN  IF at = {}
        THEN [ok |-> FALSE, entry |-> NoEntry,
              cause |-> ReadErrPrefix \o path \o ColonSpace \o CauseNoSuchFile]
        ELSE IF ~all[Min(at)].entry.parses
        THEN [ok |-> FALSE, entry |-> NoEntry,
              cause |-> ParseErrPrefix \o path \o ColonSpace \o ParseDetail]
        ELSE [ok |-> TRUE, entry |-> all[Min(at)].entry, cause |-> Empty]

\* Processor.LoadTemplate: a path is loaded as it is, a name is discovered
LoadTemplate(fs, promptsLocation, nameOrPath) ==
    IF HasPrefix(nameOrPath, Slash) \/ Contains(nameOrPath, Slash)
    THEN loadTemplateFromPath(fs, promptsLocation, nameOrPath)
    ELSE LET d == discoverTemplate(fs, promptsLocation, nameOrPath)
         IN  IF ~d.ok THEN [ok |-> FALSE, entry |-> NoEntry, cause |-> d.cause]
             ELSE loadTemplateFromPath(fs, promptsLocation, d.path)

\* Processor.Execute
Execute(entry) ==
    IF ~entry.executes THEN [ok |-> FALSE, out |-> Empty, cause |-> ExecErrInner \o ExecDetail]
    ELSE [ok |-> TRUE, out |-> entry.out, cause |-> Empty]

\* Orchestrator.processTemplate: load, then execute; each failure is wrapped
processTemplate(fs, templateName, config) ==
    LET l == LoadTemplate(fs, config.PromptsLocation, templateName)
        x == Execute(l.entry)
    IN  IF ~l.ok
        THEN [ok |-> FALSE, out |-> Empty,
              cause |-> LoadTemplatePrefix \o templateName \o ColonSpace \o l.cause]
        ELSE IF ~x.ok
        THEN [ok |-> FALSE, out |-> Empty,
              cause |-> ExecErrPrefix \o templateName \o ColonSpace \o x.cause]
        ELSE [ok |-> TRUE, out |-> x.out, cause |-> Empty]

\* truncateFunc: the text when it is short enough, else its first length
\* bytes, the last three of them dots when there is room; slicing with a
\* negative length panics
truncateFunc(length, text) ==
    IF Len(text) <= length THEN [panics |-> FALSE, result |-> text]
    ELSE IF length <= 3
    THEN IF length < 0 THEN [panics |-> TRUE, result |-> Empty]
         ELSE [panics |-> FALSE, result |-> SubSeq(text, 1, length)]
    ELSE [panics |-> FALSE, result |-> SubSeq(text, 1, length - 3) \o <<".", ".", ".">>]

(***************************************************************************)
(* The orchestrator: request validation and normal-mode assembly.          *)
(***************************************************************************)
\* models.NewPromptRequest
NewPromptRequest ==
    [BasePrompt |-> Empty, PreTemplate |-> Empty, PostTemplate |-> Empty, Files |-> <<>>,
     Directory |-> Empty, FixMode |-> FALSE, FixFile |-> Empty, Target |-> Empty,
     Editor |-> Empty, EditorRequested |-> FALSE, Interactive |-> TRUE, ConfigPath |-> Empty,
     NumberSelect |-> FALSE, FromClipboard |-> FALSE, ForceInteractive |-> FALSE,
     ForceNonInteractive |-> FALSE]

\* os.Stat of a config path as validateRequest does it: the path as given
ConfigPathExists(w, path) == w.file.at = path /\ w.file.state # "missing"

\* validateRequest with the check of the base prompt left out
validateRequestWithoutBasePrompt(req, w) ==
    IF req.Target # Empty
       /\ ~(req.Target = TargetClipboard \/ req.Target = TargetStdout
            \/ HasPrefix(req.Target, FilePrefix))
    THEN NewValidationError(FieldTarget, req.Target, ReasonTarget)
    ELSE IF req.ConfigPath # Empty /\ ~ConfigPathExists(w, req.ConfigPath)
    THEN NewValidationError(FieldConfigPath, req.ConfigPath, ReasonNoFile)
    ELSE IF req.PreTemplate # Empty /\ TrimSpace(req.PreTemplate) = Empty
    THEN NewValidationError(FieldTemplateName, req.PreTemplate, ReasonPreEmpty)
    ELSE IF req.PostTemplate # Empty /\ TrimSpace(req.PostTemplate) = Empty
    THEN NewValidationError(FieldTemplateName, req.PostTemplate, ReasonPostEmpty)
    ELSE NoError

\* validateRequest with the check of the target left out
validateRequestWithoutTarget(req, w) ==
    IF ~req.Interactive /\ req.BasePrompt = Empty /\ ~req.FixMode /\ ~req.FromClipboard
    THEN NewValidationError(FieldBasePrompt, Empty, ReasonRequired)
    ELSE IF req.ConfigPath # Empty /\ ~ConfigPathExists(w, req.ConfigPath)
    THEN NewValidationError(FieldConfigPath, req.ConfigPath, ReasonNoFile)
    ELSE IF req.PreTemplate # Empty /\ TrimSpace(req.PreTemplate) = Empty
    THEN NewValidationError(FieldTemplateName, req.PreTemplate, ReasonPreEmpty)
    ELSE IF req.PostTemplate # Empty /\ TrimSpace(req.PostTemplate) = Empty
    THEN NewValidationError(FieldTemplateName, req.PostTemplate, ReasonPostEmpty)
    ELSE NoError

\* validateRequest: the first failed check, or no error
validateRequest(req, w) ==
    IF ~req.Interactive /\ req.BasePrompt = Empty /\ ~req.FixMode /\ ~req.FromClipboard
    THEN NewValidationError(FieldBasePrompt, Empty, ReasonRequired)
    ELSE IF req.Target # Empty
            /\ ~(req.Target = TargetClipboard \/ req.Target = TargetStdout
                 \/ HasPrefix(req.Target, FilePrefix))
    THEN NewValidationError(FieldTarget, req.Target, ReasonTarget)
    ELSE IF req.ConfigPath # Empty /\ ~ConfigPathExists(w, req.ConfigPath)
    THEN NewValidationError(FieldConfigPath, req.ConfigPath, ReasonNoFile)
    ELSE IF req.PreTemplate # Empty /\ TrimSpace(req.PreTemplate) = Empty
    THEN NewValidationError(FieldTemplateName, req.PreTemplate, ReasonPreEmpty)
    ELSE IF req.PostTemplate # Empty /\ TrimSpace(req.PostTemplate) = Empty
    THEN NewValidationError(FieldTemplateName, req.PostTemplate, ReasonPostEmpty)
    ELSE NoError

\* applyConfigDefaults that fills the fix file from the config in fix mode
\* as well
applyConfigDefaultsAlsoInFixMode(req, config) ==
    [req EXCEPT
        !.PreTemplate = IF @ = Empty /\ config.DefaultPre # Empty THEN config.DefaultPre ELSE @,
        !.PostTemplate = IF @ = Empty /\ config.DefaultPost # Empty THEN config.DefaultPost ELSE @,
        !.Target = IF @ = Empty /\ config.Target # Empty THEN config.Target ELSE @,
        !.FixFile = IF @ = Empty /\ config.FixFile # Empty THEN config.FixFile ELSE @]

\* applyConfigDefaults that also ends the interaction once the defaults are
\* in
applyConfigDefaultsEndingInteraction(req, config) ==
    [req EXCEPT
        !.PreTemplate = IF @ = Empty /\ config.DefaultPre # Empty THEN config.DefaultPre ELSE @,
        !.PostTemplate = IF @ = Empty /\ config.DefaultPost # Empty THEN config.DefaultPost ELSE @,
        !.Target = IF @ = Empty /\ config.Target # Empty THEN config.Target ELSE @,
        !.FixFile = IF ~req.FixMode /\ @ = Empty /\ config.FixFile # Empty THEN config.FixFile ELSE @,
        !.Interactive = FALSE]

\* applyConfigDefaults: empty request fields take the config's values; the
\* fix file only outside fix mode
applyConfigDefaults(req, config) ==
    [req EXCEPT
        !.PreTemplate = IF @ = Empty /\ config.DefaultPre # Empty THEN config.DefaultPre ELSE @,
        !.PostTemplate = IF @ = Empty /\ config.DefaultPost # Empty THEN config.DefaultPost ELSE @,
        !.Target = IF @ = Empty /\ config.Target # Empty THEN config.Target ELSE @,
        !.FixFile = IF ~req.FixMode /\ @ = Empty /\ config.FixFile # Empty THEN config.FixFile ELSE @]

\* formatContent: the reference block for files and directory
formatContent(req) ==
    LET files == IF Len(req.Files) > 0 THEN <<ReferencingFiles>> \o req.Files ELSE <<>>
        dir == IF req.Directory = Empty THEN <<>>
               ELSE IF req.Directory = Dot THEN <<ReferencingDir, Cwd>>
               ELSE <<ReferencingDir, Abs(req.Directory)>>
    IN  Join(files \o dir, Newline)

\* one template of generateNormalPrompt: not named, rendered, skipped with a
\* warning (recoverable error), or failed
TemplatePart(fs, templateName, config, configDir) ==
    IF templateName = Empty THEN [state |-> "absent", out |-> Empty, err |-> NoError]
    ELSE LET r == processTemplate(fs, templateName, config)
             templateErr == NewTemplateError(templateName, r.cause)
         IN  IF r.ok THEN [state |-> "rendered", out |-> r.out, err |-> NoError]
             ELSE IF IsRecoverableError(templateErr)
             THEN [state |-> "warned", out |-> Empty, err |-> templateErr]
             ELSE [state |-> "failed", out |-> Empty, err |-> RecoverFromError(templateErr, configDir)]

NoPart == [state |-> "absent", out |-> Empty, err |-> NoError]

NonEmpty(text) == IF text = Empty THEN <<>> ELSE <<text>>

\* assembly that joins all four parts, empty or not
assemblePromptPartsKeepingEmpty(pre, base, content, post) ==
    IF pre.state = "failed"
    THEN [ok |-> FALSE, prompt |-> Empty, err |-> pre.err, pre |-> pre, post |-> NoPart, content |-> Empty]
    ELSE IF post.state = "failed"
    THEN [ok |-> FALSE, prompt |-> Empty, err |-> post.err, pre |-> pre, post |-> post, content |-> content]
    ELSE [ok |-> TRUE, err |-> NoError, pre |-> pre, post |-> post, content |-> content,
          prompt |-> Join(<<pre.out, base, content, post.out>>, PartSeparator)]

\* the end of generateNormalPrompt: an error when a template failed, else
\* the non-empty parts joined with a blank line
assemblePromptParts(pre, base, content, post) ==
    IF pre.state = "failed"
    THEN [ok |-> FALSE, prompt |-> Empty, err |-> pre.err, pre |-> pre, post |-> NoPart, content |-> Empty]
    ELSE IF post.state = "failed"
    THEN [ok |-> FALSE, prompt |-> Empty, err |-> post.err, pre |-> pre, post |-> post, content |-> content]
    ELSE [ok |-> TRUE, err |-> NoError, pre |-> pre, post |-> post, content |-> content,
          prompt |-> Join(NonEmpty(pre.out) \o NonEmpty(base) \o NonEmpty(content) \o NonEmpty(post.out),
                          PartSeparator)]

\* generateNormalPrompt: pre-template, base prompt, reference block,
\* post-template, in this order
generateNormalPrompt(fs, req, config, configDir) ==
    assemblePromptParts(TemplatePart(fs, req.PreTemplate, config, configDir),
                        req.BasePrompt,
                        IF Len(req.Files) > 0 \/ req.Directory # Empty THEN formatContent(req) ELSE Empty,
                        TemplatePart(fs, req.PostTemplate, config, configDir))

(***************************************************************************)
(* The orchestrator: fix mode.  The shell side of the machine is a record  *)
(* of the fix file, the shell history and what the last command prints.    *)
(***************************************************************************)
\* getLastCommandFromHistory: walk the lines backwards, strip the zsh
\* timestamp, skip blank lines, prompter's own commands and comments
RECURSIVE LastSuitable(_, _, _)
LastSuitable(lines, i, shell) ==
    IF i = 0 THEN [ok |-> FALSE, cmd |-> Empty, cause |-> CauseNoSuitable]
    ELSE LET trimmed == TrimSpace(lines[i])
             parts == SplitN2(trimmed, ";")
             line == IF shell = "zsh" /\ Contains(trimmed, Colon) /\ Len(parts) = 2
                     THEN parts[2] ELSE trimmed
         IN  IF trimmed = Empty THEN LastSuitable(lines, i - 1, shell)
             ELSE IF Contains(line, PrompterWord) THEN LastSuitable(lines, i - 1, shell)
             ELSE IF line # Empty /\ ~HasPrefix(line, Hash)
             THEN [ok |-> TRUE, cmd |-> line, cause |-> Empty]
             ELSE LastSuitable(lines, i - 1, shell)

getLastCommandFromHistory(content, shell) ==
    LastSuitable(SplitLines(content), Len(SplitLines(content)), shell)

\* getLastCommand: ~/.zsh_history when it exists, else ~/.bash_history
getLastCommand(sh) ==
    IF sh.zsh.exists THEN getLastCommandFromHistory(sh.zsh.text, "zsh")
    ELSE IF sh.bash.exists THEN getLastCommandFromHistory(sh.bash.text, "bash")
    ELSE [ok |-> FALSE, cmd |-> Empty, cause |-> CauseNoHistory]

\* cmd.CombinedOutput of "sh -c <command>": whether sh could be started,
\* what the command prints, and its exit status (an error when sh did not
\* start or the status is not 0)
CombinedOutput(sh) == [started |-> sh.started, output |-> sh.output, exit |-> sh.exit]

\* executeAndCaptureCommand with a failed command as a failed capture
executeAndCaptureCommandCheckingExit(command, ran) ==
    IF ~ran.started \/ ran.exit # 0 THEN [ok |-> FALSE, text |-> Empty, cause |-> ran.output]
    ELSE [ok |-> TRUE, text |-> TrimSpace(DollarSpace \o command \o PartSeparator \o ran.output),
          cause |-> Empty]

\* executeAndCaptureCommand: "$ <command>", a blank line, the combined
\* output; trimmed.  The error of CombinedOutput is dropped
executeAndCaptureCommand(command, ran) ==
    [ok |-> TRUE, text |-> TrimSpace(DollarSpace \o command \o PartSeparator \o ran.output), cause |-> Empty]

NoCapture == [ok |-> FALSE, text |-> Empty, cause |-> Empty, asked |-> FALSE, answer |-> "",
              executed |-> FALSE, cmd |-> Empty]

\* promptAndRerunLastCommand that runs the command whatever the answer
promptAndRerunRegardless(sh, answer) ==
    IF ~getLastCommand(sh).ok THEN [NoCapture EXCEPT !.cause = CauseGetLast \o getLastCommand(sh).cause]
    ELSE [ok |-> executeAndCaptureCommand(getLastCommand(sh).cmd, CombinedOutput(sh)).ok,
          text |-> executeAndCaptureCommand(getLastCommand(sh).cmd, CombinedOutput(sh)).text,
          cause |-> executeAndCaptureCommand(getLastCommand(sh).cmd, CombinedOutput(sh)).cause,
          asked |-> TRUE, answer |-> answer, executed |-> TRUE, cmd |-> getLastCommand(sh).cmd]

\* promptAndRerunLastCommand: ask, and run the command on yes only
promptAndRerunLastCommand(sh, answer) ==
    LET last == getLastCommand(sh)
    IN  IF ~last.ok THEN [NoCapture EXCEPT !.cause = CauseGetLast \o last.cause]
        ELSE IF answer = "cancel"
        THEN [NoCapture EXCEPT !.cause = CauseConfirm \o CauseCancelled, !.asked = TRUE,
                               !.answer = answer, !.cmd = last.cmd]
        ELSE IF answer = "no"
        THEN [NoCapture EXCEPT !.cause = CauseDeclined, !.asked = TRUE, !.answer = answer, !.cmd = last.cmd]
        ELSE [ok |-> executeAndCaptureCommand(last.cmd, CombinedOutput(sh)).ok,
              text |-> executeAndCaptureCommand(last.cmd, CombinedOutput(sh)).text,
              cause |-> executeAndCaptureCommand(last.cmd, CombinedOutput(sh)).cause,
              asked |-> TRUE, answer |-> answer, executed |-> TRUE, cmd |-> last.cmd]

\* rerunLastCommand: run the command without asking
rerunLastCommand(sh) ==
    LET last == getLastCommand(sh)
    IN  IF ~last.ok THEN [NoCapture EXCEPT !.cause = CauseGetLast \o last.cause]
        ELSE [ok |-> executeAndCaptureCommand(last.cmd, CombinedOutput(sh)).ok,
              text |-> executeAndCaptureCommand(last.cmd, CombinedOutput(sh)).text,
              cause |-> executeAndCaptureCommand(last.cmd, CombinedOutput(sh)).cause,
              asked |-> FALSE, answer |-> "", executed |-> TRUE, cmd |-> last.cmd]

\* loadFixContent that takes a fix file as it is, empty or not
loadFixContentUnchecked(sh, fixFile, interactive, answer) ==
    IF fixFile # Empty
    THEN IF ~(sh.fixFile.exists /\ sh.fixFile.path = fixFile)
         THEN [NoCapture EXCEPT !.cause = CauseNoSuchFile]
         ELSE [NoCapture EXCEPT !.ok = TRUE, !.text = TrimSpace(sh.fixFile.text)]
    ELSE IF interactive THEN promptAndRerunLastCommand(sh, answer)
    ELSE rerunLastCommand(sh)

\* loadFixContent: the fix file when one is named, else the last command
loadFixContent(sh, fixFile, interactive, answer) ==
    IF fixFile # Empty
    THEN IF ~(sh.fixFile.exists /\ sh.fixFile.path = fixFile)
         THEN [NoCapture EXCEPT !.cause = CauseNoSuchFile]
         ELSE IF TrimSpace(sh.fixFile.text) = Empty
         THEN [NoCapture EXCEPT !.cause = CauseFixEmpty]
         ELSE [NoCapture EXCEPT !.ok = TRUE, !.text = TrimSpace(sh.fixFile.text)]
    ELSE IF interactive THEN promptAndRerunLastCommand(sh, answer)
    ELSE rerunLastCommand(sh)

\* loadFixPrompt that never finds fix.md
loadFixPromptNeverFound(fs, promptsLocation) == [ok |-> FALSE, text |-> Empty]

\* loadFixPrompt: <prompts location>/fix.md, trimmed
loadFixPrompt(fs, promptsLocation) ==
    IF fs.fixmd.exists /\ fs.fixmd.readable THEN [ok |-> TRUE, text |-> TrimSpace(fs.fixmd.text)]
    ELSE [ok |-> FALSE, text |-> Empty]

\* generateFixModePrompt that puts the base prompt in front
generateFixModePromptWithBase(fs, sh, req, config, answer, configDir) ==
    IF ~loadFixContent(sh, req.FixFile, req.Interactive, answer).ok
    THEN [ok |-> FALSE, prompt |-> Empty, capture |-> loadFixContent(sh, req.FixFile, req.Interactive, answer),
          err |-> RecoverFromError(NewFixModeError(req.FixFile,
                                    loadFixContent(sh, req.FixFile, req.Interactive, answer).cause), configDir)]
    ELSE [ok |-> TRUE, err |-> NoError, capture |-> loadFixContent(sh, req.FixFile, req.Interactive, answer),
          prompt |-> Join(<<req.BasePrompt, PleaseFix,
                            loadFixContent(sh, req.FixFile, req.Interactive, answer).text>>, PartSeparator)]

\* generateFixModePrompt: the fix prompt (fix.md or "Please fix"), a blank
\* line, the captured content
generateFixModePrompt(fs, sh, req, config, answer, configDir) ==
    LET capture == loadFixContent(sh, req.FixFile, req.Interactive, answer)
        loaded == loadFixPrompt(fs, config.PromptsLocation)
        fixPrompt == IF loaded.ok THEN loaded.text ELSE PleaseFix
    IN  IF ~capture.ok
        THEN [ok |-> FALSE, prompt |-> Empty, capture |-> capture,
              err |-> RecoverFromError(NewFixModeError(req.FixFile, capture.cause), configDir)]
        ELSE [ok |-> TRUE, prompt |-> Join(<<fixPrompt, capture.text>>, PartSeparator),
              capture |-> capture, err |-> NoError]

(***************************************************************************)
(* The orchestrator: output.                                               *)
(***************************************************************************)
\* resolveEditor: --editor, $VISUAL, $EDITOR, the config's editor, the first
\* of nvim, vim, vi, nano found in /usr/bin, vi
resolveEditor(requestEditor, configEditor, env) ==
    IF requestEditor # Empty THEN requestEditor
    ELSE IF env.visual # Empty THEN env.visual
    ELSE IF env.editor # Empty THEN env.editor
    ELSE IF configEditor # Empty THEN configEditor
    ELSE LET order == <<DefaultEditor, EdVim, EdVi, EdNano>>
             found == {i \in 1..Len(order) : order[i] \in env.usrBin}
         IN  IF found # {} THEN order[Min(found)] ELSE EdVi

Event(ev, ok, text) == [ev |-> ev, ok |-> ok, text |-> text]

\* the editor step taken whenever some editor is known, asked for or not
EditorStepWhenConfigured(prompt, req, config, env, sinks) ==
    IF ~req.EditorRequested /\ config.Editor = Empty THEN [err |-> NoError, events |-> <<>>]
    ELSE [err |-> NoError,
          events |-> <<Event("editor", TRUE, resolveEditor(req.Editor, config.Editor, env))>>]

\* the editor step of OutputPrompt, taken after the primary sink succeeded
EditorStep(prompt, req, config, env, sinks) ==
    IF ~req.EditorRequested THEN [err |-> NoError, events |-> <<>>]
    ELSE LET editor == resolveEditor(req.Editor, config.Editor, env)
         IN  IF sinks.editor
             THEN [err |-> NoError, events |-> <<Event("editor", TRUE, editor)>>]
             ELSE [err |-> RecoverFromError(NewOutputError(EditorText, CauseLaunch \o editor), "exists"),
                   events |-> <<Event("editor", FALSE, editor)>>]

\* OutputPrompt: the target is the request's, else the config's, else
\* stdout; sinks tells which writes succeed.  Returns the error and the
\* writes attempted, in order
OutputPrompt(prompt, req, config, env, sinks) ==
    LET target == IF req.Target # Empty THEN req.Target
                  ELSE IF config.Target # Empty THEN config.Target
                  ELSE TargetStdout
        ed == EditorStep(prompt, req, config, env, sinks)
    IN  IF target = TargetClipboard
        THEN IF ~sinks.clipboard
             THEN LET outputErr == NewOutputError(target, CauseSink)
                  IN  IF IsRecoverableError(outputErr)
                      THEN [err |-> IF sinks.stdout THEN NoError ELSE PlainError(CauseSink),
                            events |-> <<Event("clipboard", FALSE, prompt), Event("warn", TRUE, outputErr.msg),
                                         Event("stdout", sinks.stdout, prompt)>>]
                      ELSE [err |-> RecoverFromError(outputErr, "exists"),
                            events |-> <<Event("clipboard", FALSE, prompt)>>]
             ELSE [err |-> ed.err, events |-> <<Event("clipboard", TRUE, prompt)>> \o ed.events]
        ELSE IF target = TargetStdout
        THEN IF ~sinks.stdout
             THEN [err |-> RecoverFromError(NewOutputError(target, CauseSink), "exists"),
                   events |-> <<Event("stdout", FALSE, prompt)>>]
             ELSE [err |-> ed.err, events |-> <<Event("stdout", TRUE, prompt)>> \o ed.events]
        ELSE IF HasPrefix(target, FilePrefix)
        THEN IF ~sinks.file
             THEN [err |-> RecoverFromError(NewOutputError(target, CauseSink), "exists"),
                   events |-> <<Event("file", FALSE, prompt)>>]
             ELSE [err |-> ed.err, events |-> <<Event("file", TRUE, prompt)>> \o ed.events]
        ELSE [err |-> RecoverFromError(NewValidationError(FieldTarget, target, ReasonUnsupported), "exists"),
              events |-> <<>>]

(***************************************************************************)
(* interactive.Prompter: what CollectMissingInputs asks for.               *)
(***************************************************************************)
\* strings.ReplaceAll
RECURSIVE ReplaceAll(_, _, _)
ReplaceAll(s, old, new) ==
    IF Len(s) < Len(old) \/ old = Empty THEN s
    ELSE IF HasPrefix(s, old) THEN new \o ReplaceAll(SubSeq(s, Len(old) + 1, Len(s)), old, new)
    ELSE <<Head(s)>> \o ReplaceAll(Tail(s), old, new)

\* strings.Trim(s, ".")
RECURSIVE TrimDots(_)
TrimDots(s) ==
    IF s # Empty /\ Head(s) = "." THEN TrimDots(Tail(s))
    ELSE IF s # Empty /\ s[Len(s)] = "." THEN TrimDots(SubSeq(s, 1, Len(s) - 1))
    ELSE s

IsDefaultTemplate(name) == Contains(name, DotDefaultDot) \/ HasSuffix(name, DotDefault)

\* the name a template file is offered under: ".md" and the default marker
\* removed
DisplayName(file) ==
    LET name == TrimSuffix(file, DotMd)
    IN  IF Contains(name, DotDefaultDot) THEN TrimDots(ReplaceAll(name, DotDefaultDot, Dot))
        ELSE IF HasSuffix(name, DotDefault) THEN TrimSuffix(name, DotDefault)
        ELSE name

\* findTemplates: the display names of the .md files of a directory, the
\* default-marked ones first
findTemplates(dir) ==
    IF ~dir.exists THEN <<>>
    ELSE LET md == SelectSeq(dir.entries, LAMBDA e : HasSuffix(e.file, DotMd))
             defaults == SelectSeq(md, LAMBDA e : IsDefaultTemplate(TrimSuffix(e.file, DotMd)))
             regulars == SelectSeq(md, LAMBDA e : ~IsDefaultTemplate(TrimSuffix(e.file, DotMd)))
         IN  [i \in 1..Len(defaults) |-> DisplayName(defaults[i].file)]
             \o [i \in 1..Len(regulars) |-> DisplayName(regulars[i].file)]

\* buildOptionsWithNone: default templates, then "None", then the others
buildOptionsWithNone(templates, dir) ==
    IF ~dir.exists THEN <<NoneOption>> \o templates
    ELSE LET defaultNames == {DisplayName(dir.entries[i].file) :
                                i \in {j \in 1..Len(dir.entries) :
                                         /\ HasSuffix(dir.entries[j].file, DotMd)
                                         /\ IsDefaultTemplate(TrimSuffix(dir.entries[j].file, DotMd))}}
         IN  SelectSeq(templates, LAMBDA t : t \in defaultNames)
             \o <<NoneOption>>
             \o SelectSeq(templates, LAMBDA t : t \notin defaultNames)

\* what the user may answer to a selection: one of the options, or cancel
Range(seq) == {seq[i] : i \in 1..Len(seq)}

Cancelled == <<"\t">>

SelectAnswers(options) == Range(options) \cup {Cancelled}

\* one byte read from the terminal in raw mode
ByteEsc == "ESC"

ByteCtrlC == "ETX"

Digits == <<"1", "2", "3", "4", "5", "6", "7", "8", "9">>

SelectionCancelled == <<"s", "e", "l", "e", "c", "t", "i", "o", "n", " ", "c", "a", "n", "c", "e", "l", "l", "e", "d">>

\* one turn of the read loop of selectTemplateWithNumbers: a digit within
\* the options returns that option, Enter the first option, Escape and
\* Ctrl-C an error; any other byte leaves the loop reading
selectTemplateWithNumbers(options, char) ==
    IF (\E d \in 1..9 : Digits[d] = char) /\ (CHOOSE d \in 1..9 : Digits[d] = char) - 1 < Len(options)
    THEN [returns |-> TRUE, ok |-> TRUE, selected |-> options[CHOOSE d \in 1..9 : Digits[d] = char],
          cause |-> Empty]
    ELSE IF char = "\r" \/ char = "\n"
    THEN [returns |-> TRUE, ok |-> TRUE, selected |-> IF Len(options) > 0 THEN options[1] ELSE NoneOption,
          cause |-> Empty]
    ELSE IF char = ByteEsc \/ char = ByteCtrlC
    THEN [returns |-> TRUE, ok |-> FALSE, selected |-> Empty, cause |-> SelectionCancelled]
    ELSE [returns |-> FALSE, ok |-> TRUE, selected |-> Empty, cause |-> Empty]

YesText == <<"Y", "e", "s">>

NoText == <<"N", "o">>

\* one turn of the read loop of selectYesNoWithNumbers
selectYesNoWithNumbers(defaultValue, char) ==
    IF char = "1" THEN [returns |-> TRUE, ok |-> TRUE, selected |-> YesText, cause |-> Empty]
    ELSE IF char = "2" THEN [returns |-> TRUE, ok |-> TRUE, selected |-> NoText, cause |-> Empty]
    ELSE IF char = "\r" \/ char = "\n"
    THEN [returns |-> TRUE, ok |-> TRUE, selected |-> IF defaultValue THEN YesText ELSE NoText,
          cause |-> Empty]
    ELSE IF char = ByteEsc \/ char = ByteCtrlC
    THEN [returns |-> TRUE, ok |-> FALSE, selected |-> Empty, cause |-> SelectionCancelled]
    ELSE [returns |-> FALSE, ok |-> TRUE, selected |-> Empty, cause |-> Empty]

\* appendClipboardToPrompt: the trimmed clipboard text becomes the base
\* prompt or is appended to it after a blank line
appendClipboardToPrompt(req, clip) ==
    IF ~clip.ok THEN [ok |-> FALSE, req |-> req, cause |-> ClipReadMsg]
    ELSE IF TrimSpace(clip.text) = Empty THEN [ok |-> FALSE, req |-> req, cause |-> ClipEmptyMsg]
    ELSE IF req.BasePrompt = Empty
    THEN [ok |-> TRUE, req |-> [req EXCEPT !.BasePrompt = TrimSpace(clip.text)], cause |-> Empty]
    ELSE [ok |-> TRUE, cause |-> Empty,
          req |-> [req EXCEPT !.BasePrompt = @ \o PartSeparator \o TrimSpace(clip.text)]]

\* the interactive part of CollectMissingInputs, with the user's answers:
\* base prompt, pre-template, post-template, directory
CollectInteractive(req, fs, ans) ==
    LET askBase == req.BasePrompt = Empty /\ ~req.FixMode /\ req.Interactive
        askPre == req.PreTemplate = Empty /\ ~req.FixMode
        askPost == req.PostTemplate = Empty /\ ~req.FixMode
        askDir == req.Directory = Empty /\ Len(req.Files) = 0 /\ ~req.FixMode
        r1 == IF askBase /\ ans.base # Cancelled THEN [req EXCEPT !.BasePrompt = TrimSpace(ans.base)] ELSE req
        r2 == IF askPre /\ ans.pre # NoneOption THEN [r1 EXCEPT !.PreTemplate = ans.pre] ELSE r1
        r3 == IF askPost /\ ans.post # NoneOption THEN [r2 EXCEPT !.PostTemplate = ans.post] ELSE r2
        r4 == IF askDir /\ ans.dir = "yes" THEN [r3 EXCEPT !.Directory = Cwd] ELSE r3
    IN  IF askBase /\ ans.base = Cancelled THEN [ok |-> FALSE, req |-> req, cause |-> InterruptMsg]
        ELSE IF askPre /\ ans.pre = Cancelled THEN [ok |-> FALSE, req |-> r1, cause |-> InterruptMsg]
        ELSE IF askPost /\ ans.post = Cancelled THEN [ok |-> FALSE, req |-> r2, cause |-> InterruptMsg]
        ELSE IF askDir /\ ans.dir = "cancel" THEN [ok |-> FALSE, req |-> r3, cause |-> InterruptMsg]
        ELSE [ok |-> TRUE, req |-> r4, cause |-> Empty]

\* the answers a user can give to the questions CollectInteractive asks
AnswersFor(req, fs) ==
    LET askBase == req.BasePrompt = Empty /\ ~req.FixMode /\ req.Interactive
        askPre == req.PreTemplate = Empty /\ ~req.FixMode
        askPost == req.PostTemplate = Empty /\ ~req.FixMode
        askDir == req.Directory = Empty /\ Len(req.Files) = 0 /\ ~req.FixMode
    IN  [base : IF askBase THEN {FixThisBug, Blank, Cancelled} ELSE {Empty},
         pre  : IF askPre THEN SelectAnswers(buildOptionsWithNone(findTemplates(fs.pre), fs.pre))
                ELSE {NoneOption},
         post : IF askPost THEN SelectAnswers(buildOptionsWithNone(findTemplates(fs.post), fs.post))
                ELSE {NoneOption},
         dir  : IF askDir THEN {"yes", "no", "cancel"} ELSE {"no"}]

\* resolveInteractiveMode: --interactive, else --yes, else the config
resolveInteractiveMode(req, config) ==
    [req EXCEPT !.Interactive = IF req.ForceInteractive THEN TRUE
                                ELSE IF req.ForceNonInteractive THEN FALSE
                                ELSE config.InteractiveDefault]

(***************************************************************************)
(* main: the command line and buildRequestFromFlags.                       *)
(***************************************************************************)
BoolFlags == {"yes", "interactive", "directory", "fix", "numbers", "clipboard"}

StringFlags == {"config", "pre", "post", "target", "editor", "fix-file"}

\* cobra's view of a flag: its value when it was given, else the default
GetString(c, name) == IF name \in DOMAIN c.flags THEN c.flags[name] ELSE Empty

GetBool(c, name) == name \in DOMAIN c.flags

GetStringSlice(c, name) == IF name \in DOMAIN c.flags THEN <<c.flags[name]>> ELSE <<>>

Changed(c, name) == name \in DOMAIN c.flags

\* buildRequestFromFlags that accepts --interactive together with --yes
buildRequestFromFlagsUnchecked(c) ==
    [ok |-> TRUE,
     req |-> [NewPromptRequest EXCEPT
                !.BasePrompt = IF Len(c.args) > 0 THEN TrimSpace(c.args[1]) ELSE Empty,
                !.ConfigPath = GetString(c, "config"),
                !.ForceNonInteractive = GetBool(c, "yes"),
                !.ForceInteractive = GetBool(c, "interactive"),
                !.Interactive = TRUE,
                !.PreTemplate = GetString(c, "pre"),
                !.PostTemplate = GetString(c, "post"),
                !.Files = GetStringSlice(c, "file"),
                !.Directory = IF GetBool(c, "directory") THEN Cwd ELSE Empty,
                !.Target = GetString(c, "target"),
                !.Editor = GetString(c, "editor"),
                !.EditorRequested = Changed(c, "editor"),
                !.FixMode = GetBool(c, "fix"),
                !.FixFile = GetString(c, "fix-file"),
                !.NumberSelect = GetBool(c, "numbers"),
                !.FromClipboard = GetBool(c, "clipboard")]]

\* buildRequestFromFlags: the request the flags and the argument describe;
\* --interactive together with --yes is an error
buildRequestFromFlags(c) ==
    IF GetBool(c, "interactive") /\ GetBool(c, "yes")
    THEN [ok |-> FALSE, req |-> NewPromptRequest]
    ELSE [ok |-> TRUE,
          req |-> [NewPromptRequest EXCEPT
                     !.BasePrompt = IF Len(c.args) > 0 THEN TrimSpace(c.args[1]) ELSE Empty,
                     !.ConfigPath = GetString(c, "config"),
                     !.ForceNonInteractive = GetBool(c, "yes"),
                     !.ForceInteractive = GetBool(c, "interactive"),
                     !.Interactive = TRUE,
                     !.PreTemplate = GetString(c, "pre"),
                     !.PostTemplate = GetString(c, "post"),
                     !.Files = GetStringSlice(c, "file"),
                     !.Directory = IF GetBool(c, "directory") THEN Cwd ELSE Empty,
                     !.Target = GetString(c, "target"),
                     !.Editor = GetString(c, "editor"),
                     !.EditorRequested = Changed(c, "editor"),
                     !.FixMode = GetBool(c, "fix"),
                     !.FixFile = GetString(c, "fix-file"),
                     !.NumberSelect = GetBool(c, "numbers"),
                     !.FromClipboard = GetBool(c, "clipboard")]]

(***************************************************************************)
(* The configuration inputs of a run.                                      *)
(***************************************************************************)
\* values a config file may give to a key
FileVals(k) ==
    CASE k = "prompts_location"       -> {PathP, PathTildeP}
      [] k = "local_prompts_location" -> {PathL}
      [] k = "editor"                 -> {EdVim}
      [] k = "default_pre"            -> {NameT}
      [] k = "default_post"           -> {NameP}
      [] k = "fix_file"               -> {PathF}
      [] k = "directory_strategy"     -> {StrategyFilesystem, StrategySvn}
      [] k = "target"                 -> {TargetStdout, TargetFileO, TargetBogus}
      [] OTHER                        -> {TrueText}

\* values a PROMPTER_<KEY> environment variable may have
EnvVals(k) ==
    CASE k = "prompts_location"       -> {PathE}
      [] k = "local_prompts_location" -> {PathE}
      [] k = "editor"                 -> {EdEmacs}
      [] k = "default_pre"            -> {NameE}
      [] k = "default_post"           -> {NameE}
      [] k = "fix_file"               -> {PathE}
      [] k = "directory_strategy"     -> {StrategyFilesystem}
      [] k = "target"                 -> {TargetStdout, TargetBogus}
      [] OTHER                        -> {TrueText}

\* values a SetFlag call may pass
FlagVals(k) ==
    CASE k = "editor"                 -> {EdNano, Empty}
      [] k = "target"                 -> {TargetClipboard, TargetBogus}
      [] k = "directory_strategy"     -> {StrategyGit, StrategySvn}
      [] k = "prompts_location"       -> {PathTildeP}
      [] k = "interactive_default"    -> {TrueText}
      [] OTHER                        -> {NameX}

\* one deviation from a pristine setup (no config file, empty environment,
\* no flags, an existing prompts directory, Load called with the default path)
CfgSettings ==
    UNION {{[src |-> "file", key |-> k, val |-> v] : v \in FileVals(k)} : k \in Keys}
    \cup UNION {{[src |-> "env", key |-> k, val |-> v] : v \in EnvVals(k)} : k \in Keys}
    \cup UNION {{[src |-> "flag", key |-> k, val |-> v] : v \in FlagVals(k)} : k \in Keys}
    \cup {[src |-> "disk", key |-> "file", val |-> <<v>>] : v \in {"empty", "corrupt"}}
    \cup {[src |-> "disk", key |-> "at", val |-> <<"explicit">>]}
    \cup {[src |-> "disk", key |-> "dir", val |-> <<v>>] : v \in {"creatable", "blocked"}}
    \cup {[src |-> "call", key |-> "path", val |-> <<"explicit">>]}

\* no source names a key twice
Consistent(S) == \A a, b \in S : (a.src = b.src /\ a.key = b.key) => a = b

Has(S, src, key) == \E a \in S : a.src = src /\ a.key = key

Pick(S, src, key) == (CHOOSE a \in S : a.src = src /\ a.key = key).val

SourceOf(S, src) ==
    [k \in Keys |-> IF Has(S, src, k) THEN [set |-> TRUE, val |-> Pick(S, src, k)] ELSE Unset]

\* the machine a set of settings describes: a config file exists as soon as
\* a setting mentions it
WorldOf(S) ==
    [file |-> [at    |-> IF Has(S, "disk", "at") THEN ExplicitConfigPath ELSE DefaultConfigPath,
               state |-> IF Has(S, "disk", "file") /\ Pick(S, "disk", "file") = <<"corrupt">>
                         THEN "corrupt"
                         ELSE IF Has(S, "disk", "file") \/ (\E a \in S : a.src = "file")
                         THEN "ok" ELSE "missing",
               vals  |-> SourceOf(S, "file")],
     env |-> SourceOf(S, "env"),
     promptsDir |-> IF Has(S, "disk", "dir") THEN Pick(S, "disk", "dir")[1] ELSE "exists"]

\* what the caller of the manager is going to do
ScriptOf(S) ==
    [path  |-> IF Has(S, "call", "path") THEN ExplicitConfigPath ELSE Empty,
     flags |-> SourceOf(S, "flag")]

NoResult == [ok |-> TRUE, why |-> "", cfg |-> ZeroConfig]

NoResults == [load |-> NoResult, resolve |-> NoResult, validate |-> NoResult, validated |-> ZeroConfig,
              loadConfiguration |-> NoResult]

\* app.Run before main has started
NoRunErr == [stage |-> "", err |-> NoError]

NoFS == [pre |-> [exists |-> FALSE, entries |-> <<>>], post |-> [exists |-> FALSE, entries |-> <<>>],
         fixmd |-> [exists |-> FALSE, readable |-> FALSE, text |-> Empty]]

NoShell == [fixFile |-> [exists |-> FALSE, path |-> Empty, text |-> Empty],
            zsh |-> [exists |-> FALSE, text |-> Empty], bash |-> [exists |-> FALSE, text |-> Empty],
            output |-> Empty, exit |-> 0, started |-> TRUE]

NoGen == [called |-> FALSE, mode |-> "", pre |-> NoPart, post |-> NoPart, content |-> Empty,
          capture |-> NoCapture, shell |-> NoShell]

NoCli == [args |-> <<>>, flags |-> <<>>]

\* no selection is going on
NoSelection == [step |-> "idle", kind |-> "", options |-> <<>>, defaultValue |-> FALSE, typed |-> <<>>,
                stdin |-> <<>>, ok |-> TRUE, selected |-> Empty, cause |-> Empty]

\* no helper function has been called
NoHelper == [step |-> "idle", length |-> 0, text |-> Empty, panics |-> FALSE, result |-> Empty]

RunIdle ==
    /\ pc = "idle"
    /\ cli = NoCli
    /\ request = NewPromptRequest
    /\ cfg = ZeroConfig
    /\ runErr = NoRunErr
    /\ generated = Empty
    /\ gen = NoGen
    /\ log = <<>>
    /\ tplFS = NoFS
    /\ tplSeen = FALSE

CfgInit ==
    \E S \in SubsetsUpTo(CfgSettings, MaxSettings) :
        /\ Consistent(S)
        /\ world = WorldOf(S)
        /\ script = ScriptOf(S)
        /\ mgr = NewManager
        /\ cstep = "new"
        /\ cres = NoResults
    /\ RunIdle
    /\ helper = NoHelper
    /\ sel = NoSelection

\* Manager.Load(path)
CfgLoad ==
    /\ cstep = "new"
    /\ LET l == Load(mgr, world, script.path)
       IN  /\ mgr' = l.mgr
           /\ cres' = [cres EXCEPT !.load = [ok |-> l.ok, why |-> IF l.ok THEN "" ELSE "load", cfg |-> l.cfg]]
           /\ cstep' = IF l.ok THEN "loaded" ELSE "done"
    /\ UNCHANGED <<world, script>>
    /\ UNCHANGED runVars

\* Manager.SetFlag(key, value)
CfgSetFlag ==
    /\ cstep = "loaded"
    /\ \E k \in Keys :
        /\ script.flags[k].set
        /\ ~mgr.flags[k].set
        /\ mgr' = [mgr EXCEPT !.flags[k] = script.flags[k]]
    /\ UNCHANGED <<world, script, cstep, cres>>
    /\ UNCHANGED runVars

\* Manager.Resolve(), once the caller has set its flags
CfgResolve ==
    /\ cstep = "loaded"
    /\ mgr.flags = script.flags
    /\ cres' = [cres EXCEPT !.resolve = [ok |-> TRUE, why |-> "", cfg |-> Resolve(mgr, world.env)]]
    /\ cstep' = "resolved"
    /\ UNCHANGED <<world, mgr, script>>
    /\ UNCHANGED runVars

\* Manager.Validate(config), on the resolved config or on nil
CfgValidate ==
    /\ cstep = "resolved"
    /\ \E c \in {cres.resolve.cfg, NilConfig} :
        LET v == Validate(c, world.promptsDir)
        IN  /\ cres' = [cres EXCEPT !.validate = [ok |-> v = "", why |-> v, cfg |-> c],
                                    !.validated = c]
            /\ world' = [world EXCEPT !.promptsDir = DirAfterValidate(c, world.promptsDir)]
    /\ cstep' = "done"
    /\ UNCHANGED <<mgr, script>>
    /\ UNCHANGED runVars

\* Orchestrator.LoadConfiguration(configPath)
CfgLoadConfiguration ==
    /\ cstep = "new"
    /\ script.flags = NoSource
    /\ LET r == loadConfiguration(mgr, world, script.path)
       IN  /\ mgr' = r.mgr
           /\ world' = [world EXCEPT !.promptsDir = r.dir]
           /\ cres' = [cres EXCEPT !.loadConfiguration = [ok |-> r.ok, why |-> r.why, cfg |-> r.cfg]]
    /\ cstep' = "configured"
    /\ UNCHANGED script
    /\ UNCHANGED runVars

CfgNext == CfgLoad \/ CfgSetFlag \/ CfgResolve \/ CfgValidate \/ CfgLoadConfiguration

SpecConfig == CfgInit /\ [][CfgNext]_vars

(***************************************************************************)
(* A run of the program: main, then app.Run stage by stage.                *)
(***************************************************************************)
\* the machines a run is started on
RunSetups ==
    {{},
     {[src |-> "file", key |-> "default_pre", val |-> NameT],
      [src |-> "file", key |-> "default_post", val |-> NameP]},
     {[src |-> "file", key |-> "target", val |-> TargetStdout]},
     {[src |-> "file", key |-> "interactive_default", val |-> TrueText]},
     {[src |-> "file", key |-> "editor", val |-> EdVim],
      [src |-> "file", key |-> "fix_file", val |-> PathF]},
     {[src |-> "disk", key |-> "at", val |-> <<"explicit">>],
      [src |-> "disk", key |-> "file", val |-> <<"empty">>]},
     {[src |-> "disk", key |-> "file", val |-> <<"corrupt">>]},
     {[src |-> "env", key |-> "target", val |-> TargetBogus]},
     {[src |-> "disk", key |-> "dir", val |-> <<"creatable">>]}}

\* one flag on the command line
FlagSettings ==
    {[name |-> n, val |-> TrueText] : n \in BoolFlags}
    \cup {[name |-> "config", val |-> ExplicitConfigPath]}
    \cup {[name |-> "pre", val |-> v] : v \in {NameT, NameP, NameX, Blank}}
    \cup {[name |-> "post", val |-> v] : v \in {NameP, NameX}}
    \cup {[name |-> "target", val |-> v] : v \in {TargetClipboard, TargetStdout, TargetFileO, TargetBogus}}
    \cup {[name |-> "editor", val |-> v] : v \in {EdVim, Empty}}
    \cup {[name |-> "fix-file", val |-> PathF]}
    \cup {[name |-> "file", val |-> FileA]}

\* no flag is given twice
OneEach(F) == \A a, b \in F : a.name = b.name => a = b

CliOf(args, F) ==
    [args |-> args,
     flags |-> [n \in {a.name : a \in F} |-> (CHOOSE a \in F : a.name = n).val]]

\* the positional argument
ArgChoices == {<<>>, <<FixThisBug>>, <<Blank>>}

\* the template files a prompts location may hold
TemplateWorlds ==
    {NoFS,
     [pre |-> [exists |-> TRUE,
               entries |-> <<[file |-> FileTmd, parses |-> TRUE, executes |-> TRUE, out |-> PreText]>>],
      post |-> [exists |-> TRUE,
                entries |-> <<[file |-> FilePmd, parses |-> TRUE, executes |-> TRUE, out |-> PostText]>>],
      fixmd |-> [exists |-> TRUE, readable |-> TRUE, text |-> FixMdText]],
     [pre |-> [exists |-> TRUE,
               entries |-> <<[file |-> FileTLowerMd, parses |-> FALSE, executes |-> FALSE, out |-> Empty]>>],
      post |-> [exists |-> TRUE,
                entries |-> <<[file |-> FilePmd, parses |-> TRUE, executes |-> TRUE, out |-> Empty]>>],
      fixmd |-> [exists |-> TRUE, readable |-> TRUE, text |-> FixMdBlank]],
     [pre |-> [exists |-> TRUE,
               entries |-> <<[file |-> FileNDefaultMd, parses |-> TRUE, executes |-> TRUE, out |-> PreText]>>],
      post |-> [exists |-> TRUE,
                entries |-> <<[file |-> FileADefaultBMd, parses |-> TRUE, executes |-> TRUE, out |-> PostText]>>],
      fixmd |-> [exists |-> TRUE, readable |-> FALSE, text |-> FixMdText]]}

\* the shell side of the machine in fix mode
ShellWorlds ==
    {NoShell,
     [NoShell EXCEPT !.fixFile = [exists |-> TRUE, path |-> PathF, text |-> FixFileText]],
     [NoShell EXCEPT !.fixFile = [exists |-> TRUE, path |-> PathF, text |-> GoTestText],
                     !.zsh = [exists |-> TRUE, text |-> HistZsh], !.output = CmdOut],
     [NoShell EXCEPT !.fixFile = [exists |-> TRUE, path |-> PathF, text |-> FixFileBlank]],
     [NoShell EXCEPT !.zsh = [exists |-> TRUE, text |-> HistZsh], !.output = CmdOut, !.exit = 1],
     [NoShell EXCEPT !.bash = [exists |-> TRUE, text |-> HistBash], !.output = Empty, !.started = FALSE],
     [NoShell EXCEPT !.bash = [exists |-> TRUE, text |-> HistSelf], !.output = CmdOut],
     [NoShell EXCEPT !.zsh = [exists |-> TRUE, text |-> HistSelf],
                     !.bash = [exists |-> TRUE, text |-> HistBash], !.output = CmdOut],
     [NoShell EXCEPT !.bash = [exists |-> TRUE, text |-> HistMention], !.output = CmdOut],
     [NoShell EXCEPT !.zsh = [exists |-> TRUE, text |-> HistZshPlain], !.output = Newline, !.exit = 2]}

\* $VISUAL, $EDITOR and the editors installed in /usr/bin
NoEditorEnv == [visual |-> Empty, editor |-> Empty, usrBin |-> {}]

EditorEnvs ==
    {NoEditorEnv,
     [visual |-> EdEmacs, editor |-> EdNano, usrBin |-> {EdVim}],
     [visual |-> Empty, editor |-> EdNano, usrBin |-> {EdVim}]}

\* which writes succeed; a sink the request cannot reach is left at success
Outcomes(req, config) ==
    LET target == IF req.Target # Empty THEN req.Target ELSE config.Target
    IN  [clipboard : IF target = TargetClipboard THEN BOOLEAN ELSE {TRUE},
         stdout    : IF target \in {TargetClipboard, TargetStdout, Empty} THEN BOOLEAN ELSE {TRUE},
         file      : IF HasPrefix(target, FilePrefix) THEN BOOLEAN ELSE {TRUE},
         editor    : IF req.EditorRequested THEN BOOLEAN ELSE {TRUE}]

\* the clipboard as CollectMissingInputs may find it
Clipboards ==
    {[ok |-> TRUE, text |-> ClipText], [ok |-> TRUE, text |-> Blank], [ok |-> FALSE, text |-> Empty]}

Init ==
    /\ \E S \in RunSetups : world = WorldOf(S)
    /\ mgr = NewManager
    /\ script = ScriptOf({})
    /\ cstep = "idle"
    /\ cres = NoResults
    /\ pc = "main"
    /\ \E a \in ArgChoices, F \in SubsetsUpTo(FlagSettings, MaxFlags) :
        /\ OneEach(F)
        /\ cli = CliOf(a, F)
    /\ request = NewPromptRequest
    /\ cfg = ZeroConfig
    /\ runErr = NoRunErr
    /\ generated = Empty
    /\ gen = NoGen
    /\ log = <<>>
    /\ tplFS = NoFS
    /\ tplSeen = FALSE
    /\ helper = NoHelper
    /\ sel = NoSelection

\* the run ends with an error at a stage
Fail(stage, err) ==
    /\ runErr' = [stage |-> stage, err |-> err]
    /\ pc' = "done"

\* main: buildRequestFromFlags, then app.Run
BuildRequestFromFlags ==
    /\ pc = "main"
    /\ LET b == buildRequestFromFlags(cli)
       IN  IF b.ok
           THEN /\ request' = b.req
                /\ pc' = "run"
                /\ UNCHANGED runErr
           ELSE /\ Fail("flags", PlainError(FlagConflictMsg))
                /\ UNCHANGED request
    /\ UNCHANGED <<world, mgr, apiVars, cli, cfg, generated, gen, log, tplFS, tplSeen>>

\* Run: orch.LoadConfiguration(request.ConfigPath)
RunLoadConfiguration ==
    /\ pc = "run"
    /\ LET r == loadConfiguration(mgr, world, request.ConfigPath)
       IN  /\ mgr' = r.mgr
           /\ world' = [world EXCEPT !.promptsDir = r.dir]
           /\ IF r.ok
              THEN /\ cfg' = r.cfg
                   /\ pc' = "resolve"
                   /\ UNCHANGED runErr
              ELSE /\ Fail("configuration", PlainError(ConfigReadMsg))
                   /\ UNCHANGED cfg
    /\ UNCHANGED <<apiVars, cli, request, generated, gen, log, tplFS, tplSeen>>

\* Run: resolveInteractiveMode(request, cfg)
ResolveInteractiveMode ==
    /\ pc = "resolve"
    /\ request' = resolveInteractiveMode(request, cfg)
    /\ pc' = "collect"
    /\ UNCHANGED <<world, mgr, apiVars, cli, cfg, runErr, generated, gen, log, tplFS, tplSeen>>

\* the template files are looked at for the first time, or again
ReadsFS(fs) == IF tplSeen THEN fs = tplFS ELSE fs \in TemplateWorlds

\* Run: prompter.CollectMissingInputs(request)
CollectMissingInputs ==
    /\ pc = "collect"
    /\ \E clip \in IF request.FromClipboard /\ ~request.FixMode THEN Clipboards
                     ELSE {[ok |-> TRUE, text |-> Empty]} :
        LET fromClip == IF request.FromClipboard /\ ~request.FixMode
                        THEN appendClipboardToPrompt(request, clip)
                        ELSE [ok |-> TRUE, req |-> request, cause |-> Empty]
        IN  IF ~fromClip.ok
            THEN /\ Fail("collect", PlainError(fromClip.cause))
                 /\ UNCHANGED <<request, tplFS, tplSeen>>
            ELSE IF ~fromClip.req.Interactive
            THEN /\ request' = fromClip.req
                 /\ pc' = "generate"
                 /\ UNCHANGED <<runErr, tplFS, tplSeen>>
            ELSE \E fs \in TemplateWorlds :
                    /\ ReadsFS(fs)
                    /\ tplFS' = fs
                    /\ tplSeen' = TRUE
                    /\ \E ans \in AnswersFor(fromClip.req, fs) :
                        LET c == CollectInteractive(fromClip.req, fs, ans)
                        IN  /\ request' = c.req
                            /\ IF c.ok THEN pc' = "generate" /\ UNCHANGED runErr
                               ELSE Fail("collect", PlainError(c.cause))
    /\ UNCHANGED <<world, mgr, apiVars, cli, cfg, generated, gen, log>>

\* Run: orch.GeneratePrompt(request): validate, load the configuration, apply
\* its defaults to the request, then assemble in fix mode or normal mode
GeneratePrompt ==
    /\ pc = "generate"
    /\ \E invalid \in {validateRequest(request, world)},
          lc \in {loadConfiguration(mgr, world, request.ConfigPath)},
          dir \in {ConfigDirOf(world)} :
       \E req \in {applyConfigDefaults(request, lc.cfg)} :
           IF invalid.kind # "none"
           THEN /\ Fail("generation", RecoverFromError(invalid, dir))
                /\ gen' = [NoGen EXCEPT !.called = TRUE]
                /\ UNCHANGED <<world, mgr, request, generated, log, tplFS, tplSeen>>
           ELSE IF ~lc.ok
           THEN /\ Fail("generation", RecoverFromError(NewConfigurationError(ConfigMsg, ConfigReadMsg), dir))
                /\ gen' = [NoGen EXCEPT !.called = TRUE]
                /\ mgr' = lc.mgr
                /\ world' = [world EXCEPT !.promptsDir = lc.dir]
                /\ UNCHANGED <<request, generated, log, tplFS, tplSeen>>
           ELSE /\ mgr' = lc.mgr
                /\ world' = [world EXCEPT !.promptsDir = lc.dir]
                /\ request' = req
                /\ \E fs \in TemplateWorlds :
                    /\ ReadsFS(fs)
                    /\ tplFS' = fs
                    /\ tplSeen' = TRUE
                    /\ IF req.FixMode
                       THEN \E sh \in ShellWorlds, answer \in {"yes", "no", "cancel"} :
                               \E g \in {generateFixModePrompt(fs, sh, req, lc.cfg, answer, dir)} :
                                   /\ gen' = [NoGen EXCEPT !.called = TRUE, !.mode = "fix",
                                                           !.capture = g.capture, !.shell = sh]
                                   /\ log' = log
                                        \o (IF g.capture.asked
                                            THEN <<Event("confirm", g.capture.answer = "yes", g.capture.cmd)>> ELSE <<>>)
                                        \o (IF g.capture.executed
                                            THEN <<Event("exec", TRUE, g.capture.cmd)>> ELSE <<>>)
                                   /\ generated' = g.prompt
                                   /\ IF g.ok THEN pc' = "output" /\ UNCHANGED runErr
                                      ELSE Fail("generation", g.err)
                       ELSE \E g \in {generateNormalPrompt(fs, req, lc.cfg, dir)} :
                                /\ gen' = [NoGen EXCEPT !.called = TRUE, !.mode = "normal", !.pre = g.pre,
                                                        !.post = g.post, !.content = g.content]
                                /\ log' = log
                                     \o (IF g.pre.state = "warned"
                                         THEN <<Event("warn", TRUE, g.pre.err.msg)>> ELSE <<>>)
                                     \o (IF g.post.state = "warned"
                                         THEN <<Event("warn", TRUE, g.post.err.msg)>> ELSE <<>>)
                                /\ generated' = g.prompt
                                /\ IF g.ok THEN pc' = "output" /\ UNCHANGED runErr
                                   ELSE Fail("generation", g.err)
    /\ UNCHANGED <<apiVars, cli, cfg>>

\* Run: orch.OutputPrompt(prompt, request, cfg)
RunOutputPrompt ==
    /\ pc = "output"
    /\ \E sinks \in Outcomes(request, cfg),
          env \in IF request.EditorRequested THEN EditorEnvs ELSE {NoEditorEnv} :
        LET o == OutputPrompt(generated, request, cfg, env, sinks)
        IN  /\ log' = log \o o.events
            /\ runErr' = IF o.err.kind = "none" THEN runErr ELSE [stage |-> "output", err |-> o.err]
    /\ pc' = "done"
    /\ UNCHANGED <<world, mgr, apiVars, cli, request, cfg, generated, gen, tplFS, tplSeen>>

Next ==
    \/ BuildRequestFromFlags
    \/ RunLoadConfiguration
    \/ ResolveInteractiveMode
    \/ CollectMissingInputs
    \/ GeneratePrompt
    \/ RunOutputPrompt

Spec == Init /\ [][Next]_vars

(***************************************************************************)
(* Properties of the configuration manager, checked under SpecConfig.      *)
(***************************************************************************)
FalseText == <<"f", "a", "l", "s", "e">>

\* the text of a Config field, by configuration key
FieldText(config, k) ==
    CASE k = "prompts_location"       -> config.PromptsLocation
      [] k = "local_prompts_location" -> config.LocalPromptsLocation
      [] k = "editor"                 -> config.Editor
      [] k = "default_pre"            -> config.DefaultPre
      [] k = "default_post"           -> config.DefaultPost
      [] k = "fix_file"               -> config.FixFile
      [] k = "directory_strategy"     -> config.DirectoryStrategy
      [] k = "target"                 -> config.Target
      [] OTHER                        -> IF config.InteractiveDefault THEN TrueText ELSE FalseText

PathKeys == {"prompts_location", "local_prompts_location", "fix_file"}

\* a value as a Config field holds it: paths have their leading ~ expanded
AsStored(k, v) ==
    IF k \in PathKeys /\ Len(v) >= 2 /\ v[1] = "~" /\ v[2] = "/"
    THEN HomeDir \o SubSeq(v, 2, Len(v))
    ELSE v

\* the built-in default of a key: the documented default, else the zero value
BuiltinDefault(k) ==
    CASE k = "prompts_location"   -> DefaultPromptsLocation
      [] k = "editor"             -> DefaultEditor
      [] k = "fix_file"           -> DefaultFixFile
      [] k = "directory_strategy" -> StrategyGit
      [] k = "target"             -> TargetClipboard
      [] k = "interactive_default" -> FalseText
      [] OTHER                    -> Empty

\* a source supplies a key when it holds a non-empty value for it
Supplies(source, k) == source[k].set /\ source[k].val # Empty

\* the value the precedence order override > environment > file > default
\* gives a key
ByPrecedence(k) ==
    IF Supplies(mgr.flags, k) THEN mgr.flags[k].val
    ELSE IF Supplies(world.env, k) THEN world.env[k].val
    ELSE IF mgr.file[k].set THEN mgr.file[k].val
    ELSE BuiltinDefault(k)

\* C6: for every configuration key, Resolve returns the value of the
\* highest-precedence source that supplies the key, in the order SetFlag
\* override, PROMPTER_ environment variable, config file, built-in default.
C6_ResolveFollowsPrecedence ==
    cstep = "resolved" =>
        \A k \in Keys : FieldText(cres.resolve.cfg, k) = AsStored(k, ByPrecedence(k))

\* C7: every field of Config, local_prompts_location and interactive_default
\* included, carries the value the config file gives its key, in the Config
\* Load returns and in the Config Resolve returns.
C7_ConfigCarriesFileValues ==
    /\ cstep = "loaded" =>
        \A k \in Keys :
            (mgr.file[k].set /\ ~Supplies(world.env, k))
                => FieldText(cres.load.cfg, k) = AsStored(k, mgr.file[k].val)
    /\ cstep = "resolved" =>
        \A k \in Keys :
            (mgr.file[k].set /\ ~Supplies(world.env, k) /\ ~Supplies(mgr.flags, k))
                => FieldText(cres.resolve.cfg, k) = AsStored(k, mgr.file[k].val)

TargetWellFormed(t) ==
    \/ t = TargetClipboard
    \/ t = TargetStdout
    \/ (Len(t) >= 5 /\ <<t[1], t[2], t[3], t[4], t[5]>> = <<"f", "i", "l", "e", ":">>)

StrategyWellFormed(st) == st = StrategyGit \/ st = StrategyFilesystem

\* C9: every Config LoadConfiguration returns without error has a target
\* that is clipboard, stdout or file:<path> and a directory_strategy that is
\* git or filesystem; Validate returns an error for a Config that violates
\* either condition and for a nil Config.
C9_ValidatedConfigWellFormed ==
    /\ (cstep = "configured" /\ cres.loadConfiguration.ok) =>
          /\ ~cres.loadConfiguration.cfg.isNil
          /\ TargetWellFormed(cres.loadConfiguration.cfg.Target)
          /\ StrategyWellFormed(cres.loadConfiguration.cfg.DirectoryStrategy)
    /\ (cstep = "done" /\ cres.load.ok) =>
          ((\/ cres.validated.isNil
            \/ ~TargetWellFormed(cres.validated.Target)
            \/ ~StrategyWellFormed(cres.validated.DirectoryStrategy)) => ~cres.validate.ok)

\* LoadConfiguration has turned down a configuration whose target is none of
\* the three forms
C9_Witness ==
    /\ cstep = "configured"
    /\ ~cres.loadConfiguration.ok
    /\ cres.loadConfiguration.why = "target"
    /\ mgr.file["target"].val = TargetBogus

(***************************************************************************)
(* Properties of a run, checked under Spec.                                *)
(***************************************************************************)
SinkEvents == {"clipboard", "stdout", "file", "editor"}

\* a template name no file of pre/ or post/ answers to
NotFound(name) ==
    /\ name # Empty
    /\ ~Contains(name, Slash)
    /\ \A d \in {tplFS.pre, tplFS.post} :
          d.exists => \A i \in 1..Len(d.entries) :
                         ~EqualFold(TrimSuffix(d.entries[i].file, Ext(d.entries[i].file)), name)

Warned == \E i \in 1..Len(log) : log[i].ev = "warn"

\* C1: in normal mode a named pre- or post-template that cannot be found does
\* not make GeneratePrompt fail: a warning is emitted, the part is left out
\* and the prompt returned still contains the base prompt; GeneratePrompt
\* returns a template error only when a template failed in another way.
C1_MissingTemplateIsRecovered ==
    /\ (/\ gen.mode = "normal"
        /\ NotFound(request.PreTemplate) \/ NotFound(request.PostTemplate)
        /\ request.PreTemplate = Empty \/ NotFound(request.PreTemplate) \/ gen.pre.state = "rendered"
        /\ request.PostTemplate = Empty \/ NotFound(request.PostTemplate) \/ gen.post.state = "rendered")
       => /\ runErr.stage # "generation"
          /\ Warned
          /\ Contains(generated, request.BasePrompt)
    /\ (gen.mode = "normal" /\ runErr.stage = "generation")
       => \/ (request.PreTemplate # Empty /\ ~NotFound(request.PreTemplate))
          \/ (request.PostTemplate # Empty /\ ~NotFound(request.PostTemplate))

\* C2: when the target is clipboard and the clipboard write fails, a warning
\* is emitted and the same prompt text is written to standard output; the
\* run fails only if that write to standard output fails as well.
C2_ClipboardFallsBackToStdout ==
    \A i \in 1..Len(log) :
        (log[i].ev = "clipboard" /\ ~log[i].ok)
            => /\ Len(log) = i + 2
               /\ log[i + 1].ev = "warn"
               /\ log[i + 2].ev = "stdout"
               /\ log[i + 2].text = generated
               /\ log[i].text = generated
               /\ pc = "done"
               /\ (runErr.err.kind # "none") <=> ~log[i + 2].ok

\* the clipboard write failed, standard output took the prompt and the run
\* ended without error
C2_Witness ==
    /\ pc = "done"
    /\ runErr = NoRunErr
    /\ Len(log) = 3
    /\ log[1].ev = "clipboard" /\ ~log[1].ok
    /\ log[3].ev = "stdout" /\ log[3].ok /\ log[3].text = FixThisBug

BadTarget(t) ==
    /\ t # Empty
    /\ t # TargetClipboard
    /\ t # TargetStdout
    /\ ~(Len(t) >= 5 /\ <<t[1], t[2], t[3], t[4], t[5]>> = <<"f", "i", "l", "e", ":">>)

\* C3: for every request whose target is non-empty and neither clipboard nor
\* stdout nor a text starting with file:, no sink (clipboard, stdout, file,
\* editor) is ever written, the run never ends without an error, and
\* GeneratePrompt, once called with the request, returns an error of kind
\* ValidationFailed.
C3_BadTargetIsRejected ==
    BadTarget(request.Target) =>
        /\ \A i \in 1..Len(log) : log[i].ev \notin SinkEvents
        /\ pc # "output"
        /\ pc = "done" => runErr.err.kind # "none"
        /\ gen.called => (pc = "done" /\ runErr.stage = "generation" /\ runErr.err.kind = "ValidationFailed")

\* a request with a base prompt and the target "bogus" was turned down for
\* its target
C3_Witness ==
    /\ pc = "done"
    /\ request.Target = TargetBogus
    /\ request.BasePrompt = FixThisBug
    /\ gen.called
    /\ runErr.err.kind = "ValidationFailed"
    /\ Contains(runErr.err.msg, FieldTarget)
    /\ log = <<>>

\* C4: the editor is launched only when the request asked for it
\* (EditorRequested, not an editor that is merely configured) and only after
\* the write to the target has succeeded; a failed launch makes OutputPrompt
\* return an error of kind OutputFailed.
C4_EditorOnlyOnRequestAfterDispatch ==
    \A i \in 1..Len(log) :
        log[i].ev = "editor"
            => /\ request.EditorRequested
               /\ "editor" \in DOMAIN cli.flags
               /\ i > 1
               /\ log[i - 1].ev \in {"clipboard", "stdout", "file"}
               /\ log[i - 1].ok
               /\ \A j \in 1..(i - 1) : log[j].ev \in SinkEvents => log[j].ok
               /\ ~log[i].ok => (pc = "done" /\ runErr.stage = "output" /\ runErr.err.kind = "OutputFailed")

\* the prompt went to standard output, then the editor failed to start
C4_Witness ==
    /\ pc = "done"
    /\ Len(log) = 2
    /\ log[1].ev = "stdout" /\ log[1].ok
    /\ log[2].ev = "editor" /\ ~log[2].ok
    /\ runErr.err.kind = "OutputFailed"

Executed == \E i \in 1..Len(log) : log[i].ev = "exec"

Asked == \E i \in 1..Len(log) : log[i].ev = "confirm"

\* C5: in fix mode without a fix file, when a last command is found in the
\* shell history: in interactive mode the command is executed only after the
\* confirmation returned yes, and when the user declines or cancels the
\* command is never executed and the capture fails; in non-interactive mode
\* the command is executed and no confirmation is asked.
C5_RerunNeedsConfirmation ==
    (gen.mode = "fix" /\ request.FixFile = Empty /\ gen.capture.cmd # Empty)
        => IF request.Interactive
           THEN /\ \A i \in 1..Len(log) :
                      log[i].ev = "exec" => (i > 1 /\ log[i - 1].ev = "confirm" /\ log[i - 1].ok)
                /\ Asked
                /\ gen.capture.answer # "yes"
                      => (~Executed /\ runErr.stage = "generation" /\ runErr.err.kind = "FixModeInvalid")
           ELSE Executed /\ ~Asked

\* an interactive fix run whose user declined: nothing was executed
C5_Witness ==
    /\ gen.mode = "fix"
    /\ request.Interactive
    /\ request.FixFile = Empty
    /\ gen.capture.cmd = CmdMake
    /\ gen.capture.answer = "no"
    /\ ~Executed
    /\ runErr.err.kind = "FixModeInvalid"

\* the config file a run names does not exist
MissingConfig == ~(world.file.state # "missing" /\ world.file.at = (IF request.ConfigPath = Empty
                                                                     THEN DefaultConfigPath
                                                                     ELSE request.ConfigPath))

\* C8: a missing config file is not an error: whether the path is the
\* default one or one given explicitly, loading succeeds with the built-in
\* defaults and the run goes on to prompt generation without failing for
\* the missing file.
C8_MissingConfigFileIsNoError ==
    (MissingConfig /\ pc \notin {"main", "run"} /\ runErr.stage # "flags")
        => /\ world.env = NoSource => (runErr.stage # "configuration" /\ cfg.Target = TargetClipboard
                                       /\ cfg.Editor = DefaultEditor /\ cfg.DirectoryStrategy = StrategyGit)
           /\ ~(runErr.err.kind = "ValidationFailed" /\ Contains(runErr.err.msg, FieldConfigPath))

\* the parts joined with a blank line, an empty part left out
RECURSIVE BlankLineJoined(_)
BlankLineJoined(parts) ==
    IF parts = <<>> THEN <<>>
    ELSE IF Head(parts) = <<>> THEN BlankLineJoined(Tail(parts))
    ELSE IF BlankLineJoined(Tail(parts)) = <<>> THEN Head(parts)
    ELSE Head(parts) \o <<"\n", "\n">> \o BlankLineJoined(Tail(parts))

\* C10: in normal mode the prompt is exactly the non-empty parts among the
\* rendered pre-template, the base prompt, the reference block and the
\* rendered post-template, in this order, joined by "\n\n"; an omitted or
\* empty part adds neither text nor separator, so that the base prompt
\* "Fix this bug" alone yields exactly "Fix this bug".
C10_PromptIsJoinedNonEmptyParts ==
    (gen.mode = "normal" /\ runErr.stage # "generation")
        => /\ generated = BlankLineJoined(<<gen.pre.out, request.BasePrompt, gen.content, gen.post.out>>)
           /\ (/\ request.BasePrompt = FixThisBug
               /\ request.PreTemplate = Empty /\ request.PostTemplate = Empty
               /\ request.Files = <<>> /\ request.Directory = Empty)
              => generated = FixThisBug

\* a post-template that rendered to nothing: base prompt and reference
\* block alone make the prompt
C10_Witness ==
    /\ gen.mode = "normal"
    /\ pc = "output"
    /\ gen.post.state = "rendered" /\ gen.post.out = Empty
    /\ gen.content # Empty
    /\ request.BasePrompt = FixThisBug
    /\ generated = FixThisBug \o <<"\n", "\n">> \o gen.content

(***************************************************************************)
(* Properties of fix mode, checked under Spec.                             *)
(***************************************************************************)
Whitespace == {" ", "\n", "\t", "\r"}

\* t is raw without its leading and its trailing white space
IsTrimOf(t, raw) ==
    \E i \in 1..(Len(raw) + 1), j \in 0..Len(raw) :
        /\ i <= j + 1
        /\ t = SubSeq(raw, i, j)
        /\ \A k \in 1..(i - 1) : raw[k] \in Whitespace
        /\ \A k \in (j + 1)..Len(raw) : raw[k] \in Whitespace
        /\ t # <<>> => (t[1] \notin Whitespace /\ t[Len(t)] \notin Whitespace)

DefaultOpener == <<"P", "l", "e", "a", "s", "e", " ", "f", "i", "x">>

GoTestPrompt == <<"P", "l", "e", "a", "s", "e", " ", "f", "i", "x", "\n", "\n", "$", " ", "g", "o", " ", "t", "e", "s", "t", " ", ".", "/", ".", ".", ".", "\n", "\n", "F", "A", "I", "L">>

\* what the claim's example says, and that the content of a fix file is
\* captured trimmed
FixExampleHolds ==
    /\ request.FixFile # Empty => IsTrimOf(gen.capture.text, gen.shell.fixFile.text)
    /\ (request.FixFile # Empty /\ gen.shell.fixFile.text = GoTestText /\ ~tplFS.fixmd.exists)
          => generated = GoTestPrompt

\* C11: in fix mode the prompt is the fix opener, a blank-line separator,
\* then the trimmed captured content; the opener is the content of fix.md at
\* the templates root when that file exists and "Please fix" when it is
\* absent, so that a fix file "$ go test ./...\n\nFAIL" without fix.md
\* yields "Please fix\n\n$ go test ./...\n\nFAIL".
C11_FixPromptIsOpenerThenContent ==
    (gen.mode = "fix" /\ runErr.stage # "generation")
        => /\ generated = (IF tplFS.fixmd.exists /\ tplFS.fixmd.readable THEN tplFS.fixmd.text ELSE DefaultOpener)
                            \o <<"\n", "\n">> \o gen.capture.text
           /\ FixExampleHolds

\* C11, amended: as above, the opener being the content of fix.md without
\* its leading and trailing white space when that file exists and can be
\* read.
C11_FixPromptIsTrimmedOpenerThenContent ==
    (gen.mode = "fix" /\ runErr.stage # "generation")
        => /\ \E n \in 0..Len(generated) :
                /\ IF tplFS.fixmd.exists /\ tplFS.fixmd.readable
                   THEN IsTrimOf(SubSeq(generated, 1, n), tplFS.fixmd.text)
                   ELSE SubSeq(generated, 1, n) = DefaultOpener
                /\ generated = SubSeq(generated, 1, n) \o <<"\n", "\n">> \o gen.capture.text
           /\ FixExampleHolds

\* a fix.md that ends with a newline opened the prompt without that newline
C11_Witness ==
    /\ gen.mode = "fix"
    /\ pc = "output"
    /\ tplFS.fixmd.exists
    /\ tplFS.fixmd.text = <<"F", "i", "x", " ", "i", "t", "\n">>
    /\ request.FixFile # Empty
    /\ generated = <<"F", "i", "x", " ", "i", "t", "\n", "\n", "b", "o", "o", "m">>

\* what GeneratePrompt returns for a request in fix mode (the prompt, the
\* error and what was captured), as the function of its inputs the action
\* GeneratePrompt computes
FixModeResult(req, w, lc, fs, sh, answer) ==
    IF validateRequest(req, w).kind # "none"
    THEN [ok |-> FALSE, prompt |-> Empty, capture |-> NoCapture,
          err |-> RecoverFromError(validateRequest(req, w), ConfigDirOf(w))]
    ELSE IF ~lc.ok
    THEN [ok |-> FALSE, prompt |-> Empty, capture |-> NoCapture,
          err |-> RecoverFromError(NewConfigurationError(ConfigMsg, ConfigReadMsg), ConfigDirOf(w))]
    ELSE generateFixModePrompt(fs, sh, applyConfigDefaults(req, lc.cfg), lc.cfg, answer, ConfigDirOf(w))

\* base prompts a request may carry instead of its own
OtherBasePrompts == {<<>>, <<"F", "i", "x", " ", "t", "h", "i", "s", " ", "b", "u", "g">>, <<"c", "l", "i", "p">>}

\* C12: the base prompt has no influence in fix mode: two requests in fix
\* mode that differ only in the base prompt, run against the same
\* configuration, templates, fix file and history, get the same result from
\* GeneratePrompt; and with --clipboard the clipboard is neither read nor
\* appended in fix mode: collecting inputs never fails and leaves the base
\* prompt the positional argument.
C12_BasePromptIgnoredInFixMode ==
    /\ (request.FixMode /\ pc = "generate")
          => \A b \in OtherBasePrompts, fs \in TemplateWorlds, sh \in ShellWorlds, answer \in {"yes", "no", "cancel"} :
                FixModeResult([request EXCEPT !.BasePrompt = b], world,
                              loadConfiguration(mgr, world, request.ConfigPath), fs, sh, answer)
                    = FixModeResult(request, world,
                                    loadConfiguration(mgr, world, request.ConfigPath), fs, sh, answer)
    /\ (request.FixMode /\ pc # "main")
          => /\ runErr.stage # "collect"
             /\ IsTrimOf(request.BasePrompt, IF cli.args = <<>> THEN <<>> ELSE cli.args[1])
    /\ (gen.mode = "fix" /\ runErr.stage # "generation")
          => generated = FixModeResult([request EXCEPT !.BasePrompt = <<>>], world,
                                       loadConfiguration(mgr, world, request.ConfigPath),
                                       tplFS, gen.shell, gen.capture.answer).prompt

\* a fix-mode run given a base prompt and --clipboard: the prompt holds
\* neither
C12_Witness ==
    /\ pc = "output"
    /\ request.FixMode
    /\ request.FromClipboard
    /\ request.BasePrompt = <<"F", "i", "x", " ", "t", "h", "i", "s", " ", "b", "u", "g">>
    /\ generated = <<"P", "l", "e", "a", "s", "e", " ", "f", "i", "x", "\n", "\n", "$", " ", "m", "a", "k", "e", "\n", "\n", "F", "A", "I", "L">>

\* the fix file the request names can be read
FixFileReadable == gen.shell.fixFile.exists /\ gen.shell.fixFile.path = request.FixFile

\* C13: with an explicit fix-file path the captured content is the file's
\* content without its leading and trailing white space, no history is
\* looked up and no command is executed; a file that cannot be read or whose
\* trimmed content is empty makes GeneratePrompt fail with an error of kind
\* FixModeInvalid and no prompt.
C13_FixFileIsReadAndTrimmed ==
    (gen.mode = "fix" /\ request.FixFile # Empty)
        => /\ ~Executed /\ ~Asked
           /\ gen.capture.cmd = <<>>
           /\ IF FixFileReadable
                 /\ \E k \in 1..Len(gen.shell.fixFile.text) : gen.shell.fixFile.text[k] \notin Whitespace
              THEN /\ runErr.stage # "generation"
                   /\ pc \in {"output", "done"}
                   /\ gen.capture.text # <<>>
                   /\ IsTrimOf(gen.capture.text, gen.shell.fixFile.text)
              ELSE /\ pc = "done"
                   /\ runErr.stage = "generation"
                   /\ runErr.err.kind = "FixModeInvalid"
                   /\ generated = <<>>
                   /\ log = <<>>

\* a fix file read on a machine that also has a shell history: the file's
\* trimmed content is captured and nothing is executed
C13_Witness ==
    /\ gen.mode = "fix"
    /\ pc = "output"
    /\ request.FixFile = <<"/", "f">>
    /\ gen.shell.zsh.exists
    /\ gen.shell.fixFile.text = GoTestText
    /\ gen.capture.text = GoTestText
    /\ ~Executed

(***************************************************************************)
(* Properties of the history lookup, checked under Spec.                   *)
(***************************************************************************)
DigitsAndColon == {"0", "1", "2", "3", "4", "5", "6", "7", "8", "9", ":"}

\* the place of the ";" that ends a zsh extended-history prefix
\* ": <time>:<n>;", or 0 when the line has no such prefix
StampEnd(line) ==
    IF Len(line) >= 3 /\ line[1] = ":" /\ line[2] = " "
       /\ \E p \in 4..Len(line) : line[p] = ";" /\ \A k \in 3..(p - 1) : line[k] \in DigitsAndColon
    THEN CHOOSE p \in 4..Len(line) : line[p] = ";" /\ \A k \in 3..(p - 1) : line[k] \in DigitsAndColon
    ELSE 0

\* a history line without its timestamp prefix
Unstamped(line, shell) ==
    IF shell = "zsh" /\ StampEnd(line) > 0 THEN SubSeq(line, StampEnd(line) + 1, Len(line)) ELSE line

ToolName == <<"p", "r", "o", "m", "p", "t", "e", "r">>

\* the command runs this tool: prompter, or a path to it, is one of its words
InvokesTool(command) ==
    \E i \in 1..(Len(command) - 7) :
        /\ SubSeq(command, i, i + 7) = ToolName
        /\ (i = 1 \/ command[i - 1] \in {" ", "/", ";", "&", "|"})
        /\ (i + 7 = Len(command) \/ command[i + 8] \in {" ", ";", "&", "|"})

\* the lines of a history file, each without the white space around it
HistoryLines(text) == [k \in 1..Len(SplitLines(text)) |-> TrimSpace(SplitLines(text)[k])]

\* the lines a lookup may return: not blank, no comment, not this tool
Eligible(text, shell) ==
    {k \in 1..Len(HistoryLines(text)) :
        /\ Unstamped(HistoryLines(text)[k], shell) # <<>>
        /\ Unstamped(HistoryLines(text)[k], shell)[1] # "#"
        /\ ~InvokesTool(Unstamped(HistoryLines(text)[k], shell))}

\* the command was taken from this line and from no later one
TakenFrom(cmd, text, k) ==
    /\ cmd # <<>>
    /\ HasSuffix(HistoryLines(text)[k], cmd)
    /\ \A n \in (k + 1)..Len(HistoryLines(text)) : ~HasSuffix(HistoryLines(text)[n], cmd)

\* the lookup in one history file gave what the claim says
LookedUpIn(text, shell) ==
    IF Eligible(text, shell) = {}
    THEN /\ gen.capture.cmd = <<>>
         /\ ~gen.capture.ok
         /\ ~Executed
         /\ runErr.err.kind = "FixModeInvalid"
    ELSE TakenFrom(gen.capture.cmd, text, Max(Eligible(text, shell)))

\* C14: the last command is the most recent line of the first existing
\* history file (.zsh_history before .bash_history) that is not blank, no
\* comment and does not itself invoke this tool; a line is skipped for one
\* of these three reasons only, and when the first existing file holds no
\* such line the capture fails, without falling back to the next file.
C14_LastCommandIsLatestEligibleLine ==
    (gen.mode = "fix" /\ request.FixFile = <<>>)
        => IF gen.shell.zsh.exists THEN LookedUpIn(gen.shell.zsh.text, "zsh")
           ELSE IF gen.shell.bash.exists THEN LookedUpIn(gen.shell.bash.text, "bash")
           ELSE gen.capture.cmd = <<>> /\ ~gen.capture.ok /\ ~Executed

\* the history file a lookup reads, and its shell
HistoryUsed ==
    IF gen.shell.zsh.exists THEN [text |-> gen.shell.zsh.text, shell |-> "zsh"]
    ELSE [text |-> gen.shell.bash.text, shell |-> "bash"]

\* C15: stripping the timestamp of a history line removes a shell timestamp
\* prefix and nothing else: of a zsh extended-history line
\* ": <time>:<n>;<command>" exactly <command> is left, and a line without
\* such a prefix is returned as it is, whatever ":" or ";" the command holds.
C15_StripRemovesOnlyTimestamp ==
    (gen.mode = "fix" /\ request.FixFile = <<>> /\ gen.capture.cmd # <<>>)
        => \E k \in 1..Len(HistoryLines(HistoryUsed.text)) :
              gen.capture.cmd = Unstamped(HistoryLines(HistoryUsed.text)[k], HistoryUsed.shell)

\* C16: a non-zero exit of the re-run command is no capture failure:
\* executeAndCaptureCommand returns no error whatever the exit status, and
\* the captured text is "$ <command>", a blank line, then the combined
\* output of the command, without the white space around it.
C16_ExitStatusIsNoCaptureFailure ==
    gen.capture.executed
        => /\ gen.capture.ok
           /\ runErr.stage # "generation"
           /\ pc \in {"output", "done"}
           /\ IsTrimOf(gen.capture.text,
                       <<"$", " ">> \o gen.capture.cmd \o <<"\n", "\n">> \o gen.shell.output)

\* a command that failed with exit status 1 was captured with what it
\* printed
C16_Witness ==
    /\ gen.capture.executed
    /\ gen.shell.exit = 1
    /\ pc = "output"
    /\ gen.capture.text = <<"$", " ", "m", "a", "k", "e", "\n", "\n", "F", "A", "I", "L">>

(***************************************************************************)
(* Properties of template discovery, checked under Spec.                   *)
(***************************************************************************)
\* the same text up to the case of its letters
SameUpToCase(a, b) ==
    /\ Len(a) = Len(b)
    /\ \A i \in 1..Len(a) :
          \/ a[i] = b[i]
          \/ \E k \in 1..26 : {a[i], b[i]} = {UpperLetters[k], LowerLetters[k]}

\* a file name without its extension
StemOf(file) ==
    IF \E i \in 1..Len(file) : file[i] = "."
    THEN SubSeq(file, 1, (CHOOSE i \in 1..Len(file) :
                            file[i] = "." /\ \A j \in (i + 1)..Len(file) : file[j] # ".") - 1)
    ELSE file

\* every spelling of a name in upper and lower case
Spellings(name) ==
    {[i \in 1..Len(name) |->
        IF \E k \in 1..26 : name[i] \in {UpperLetters[k], LowerLetters[k]}
        THEN LET k == CHOOSE k \in 1..26 : name[i] \in {UpperLetters[k], LowerLetters[k]}
             IN  IF up[i] THEN UpperLetters[k] ELSE LowerLetters[k]
        ELSE name[i]] : up \in [1..Len(name) -> BOOLEAN]}

\* the template files under the prompts location, with the directory of each
FilesOf(fs) ==
    {[dir |-> DirPre, entry |-> fs.pre.entries[i]] : i \in 1..(IF fs.pre.exists THEN Len(fs.pre.entries) ELSE 0)}
    \cup {[dir |-> DirPost, entry |-> fs.post.entries[i]] : i \in 1..(IF fs.post.exists THEN Len(fs.post.entries) ELSE 0)}

PathOf(f) == DefaultPromptsLocation \o Slash \o f.dir \o Slash \o f.entry.file

\* a part of the prompt is what discovery of this file makes of it
MadeFrom(part, f) ==
    IF f.entry.parses /\ f.entry.executes
    THEN part.state = "rendered" /\ part.out = f.entry.out
    ELSE part.state = "failed" /\ Contains(part.err.cause, Slash \o f.dir \o Slash \o f.entry.file \o ColonSpace)

Resolves(name, part, fs) ==
    IF \E f \in FilesOf(fs) : SameUpToCase(StemOf(f.entry.file), name)
    THEN /\ \E f \in FilesOf(fs) : SameUpToCase(StemOf(f.entry.file), name) /\ MadeFrom(part, f)
         /\ \E f \in FilesOf(fs) :
               /\ SameUpToCase(StemOf(f.entry.file), name)
               /\ \A v \in Spellings(name) :
                     discoverTemplate(fs, DefaultPromptsLocation, v) = [ok |-> TRUE, path |-> PathOf(f), cause |-> Empty]
    ELSE /\ part.state = "failed"
         /\ Contains(part.err.cause, TemplateNotFoundPrefix \o name)
         /\ \A v \in Spellings(name) : ~discoverTemplate(fs, DefaultPromptsLocation, v).ok

\* C17: discovery matches the requested name against the stem of each
\* template file without regard to letter case: when a file has a stem equal
\* to the name up to case, every spelling of the name resolves to that one
\* file, and a name that matches no stem fails with "template not found".
C17_DiscoveryIgnoresLetterCase ==
    (gen.mode = "normal")
        => /\ (request.PreTemplate # Empty /\ ~Contains(request.PreTemplate, Slash))
                => Resolves(request.PreTemplate, gen.pre, tplFS)
           /\ (request.PostTemplate # Empty /\ ~Contains(request.PostTemplate, Slash)
                   /\ gen.pre.state # "failed")
                => Resolves(request.PostTemplate, gen.post, tplFS)

\* the template asked for as "t" was rendered from pre/T.md
C17_Witness ==
    /\ gen.mode = "normal"
    /\ request.PreTemplate = <<"t">>
    /\ tplFS.pre.exists
    /\ tplFS.pre.entries[1].file = <<"T", ".", "m", "d">>
    /\ gen.pre.state = "rendered"
    /\ gen.pre.out = tplFS.pre.entries[1].out
    /\ pc = "done"

DefaultMarker == <<".", "d", "e", "f", "a", "u", "l", "t">>

\* where the default marker stands in a stem: ".default" at its end or
\* before a further dot
MarkerAt(stem) ==
    {i \in 1..Len(stem) :
        /\ i + 7 <= Len(stem)
        /\ SubSeq(stem, i, i + 7) = DefaultMarker
        /\ (i + 7 = Len(stem) \/ stem[i + 8] = ".")}

\* a stem without its default marker: "foo.default.bar" is "foo.bar",
\* "name.default" is "name"
Unmarked(stem) ==
    IF MarkerAt(stem) = {} THEN stem
    ELSE LET i == CHOOSE i \in MarkerAt(stem) : \A j \in MarkerAt(stem) : i <= j
         IN  SubSeq(stem, 1, i - 1) \o SubSeq(stem, i + 8, Len(stem))

\* the name stands for a marked file of the directory, and the part was made
\* from that file
MarkedFileAnswers(name, part, dir, kind) ==
    \A i \in 1..(IF dir.exists THEN Len(dir.entries) ELSE 0) :
        (/\ MarkerAt(StemOf(dir.entries[i].file)) # {}
         /\ \/ name = Unmarked(StemOf(dir.entries[i].file))
            \/ name = StemOf(dir.entries[i].file))
        => MadeFrom(part, [dir |-> kind, entry |-> dir.entries[i]])

\* C18: the default marker is left out for display and for matching alike: a
\* template file that carries the marker is resolved under its unmarked name
\* as well as under its marked name, so the name the selection shows for such
\* a file is one that discovery resolves to it.
C18_DefaultMarkerIgnoredInMatching ==
    /\ (gen.mode = "normal")
          => /\ MarkedFileAnswers(request.PreTemplate, gen.pre, tplFS.pre, DirPre)
             /\ (gen.pre.state # "failed")
                   => MarkedFileAnswers(request.PostTemplate, gen.post, tplFS.post, DirPost)
    /\ tplSeen
          => \A f \in FilesOf(tplFS) :
                MarkerAt(StemOf(f.entry.file)) # {}
                   => /\ DisplayName(f.entry.file) = Unmarked(StemOf(f.entry.file))
                      /\ \A name \in {StemOf(f.entry.file), Unmarked(StemOf(f.entry.file))} :
                            discoverTemplate(tplFS, DefaultPromptsLocation, name)
                                = [ok |-> TRUE, path |-> PathOf(f), cause |-> Empty]

\* what holds of the marker: the unmarked name is the one displayed, and the
\* marked name is the one discovery resolves
MarkedNameAloneIsResolved ==
    tplSeen
       => \A f \in FilesOf(tplFS) :
             MarkerAt(StemOf(f.entry.file)) # {}
                => /\ DisplayName(f.entry.file) = Unmarked(StemOf(f.entry.file))
                   /\ discoverTemplate(tplFS, DefaultPromptsLocation, StemOf(f.entry.file))
                         = [ok |-> TRUE, path |-> PathOf(f), cause |-> Empty]
                   /\ ~discoverTemplate(tplFS, DefaultPromptsLocation, Unmarked(StemOf(f.entry.file))).ok

\* a part is made from a file of its own kind
OfItsKind(name, part, dir, kind) ==
    /\ (part.state = "rendered")
          => \E i \in 1..(IF dir.exists THEN Len(dir.entries) ELSE 0) :
                /\ SameUpToCase(StemOf(dir.entries[i].file), name)
                /\ part.out = dir.entries[i].out
    /\ (part.state = "failed" /\ ~Contains(part.err.cause, TemplateNotFoundPrefix))
          => Contains(part.err.cause, Slash \o kind \o Slash)

\* C19: discovery looks only into the directory of the kind of template
\* asked for: a pre-template is never taken from a file under post/ and a
\* post-template never from a file under pre/.
C19_DiscoveryStaysInItsDirectory ==
    (gen.mode = "normal")
        => /\ (request.PreTemplate # Empty /\ ~Contains(request.PreTemplate, Slash))
                => OfItsKind(request.PreTemplate, gen.pre, tplFS.pre, DirPre)
           /\ (request.PostTemplate # Empty /\ ~Contains(request.PostTemplate, Slash))
                => OfItsKind(request.PostTemplate, gen.post, tplFS.post, DirPost)

OwnDirectoryUnlessNamedInOther ==
    (request.PreTemplate # <<"p">> /\ request.PostTemplate # <<"t">>) => C19_DiscoveryStaysInItsDirectory

(***************************************************************************)
(* Properties of the command line, checked under Spec.                     *)
(***************************************************************************)
BothForced == {"interactive", "yes"} \subseteq DOMAIN cli.flags

\* C20: forcing interactive and non-interactive mode together is an error
\* and never settled in favour of one side: no request has both
\* ForceInteractive and ForceNonInteractive set, and a command line with
\* --interactive and --yes ends with the error "cannot use both" before a
\* configuration is loaded, an input collected or a prompt generated.
C20_ForceFlagsExcludeEachOther ==
    /\ ~(request.ForceInteractive /\ request.ForceNonInteractive)
    /\ (BothForced /\ pc # "main")
          => /\ pc = "done"
             /\ runErr.stage = "flags"
             /\ runErr.err.kind # "none"
             /\ Contains(runErr.err.msg, <<"c", "a", "n", "n", "o", "t", " ", "u", "s", "e", " ", "b", "o", "t", "h">>)
             /\ request = NewPromptRequest
             /\ mgr = NewManager
             /\ cfg = ZeroConfig
             /\ ~tplSeen
             /\ ~gen.called
             /\ generated = Empty
             /\ log = <<>>

\* a command line with both flags was turned down
C20_Witness ==
    /\ BothForced
    /\ pc = "done"
    /\ runErr.stage = "flags"

(***************************************************************************)
(* Properties of the errors of a run, checked under Spec.                  *)
(***************************************************************************)
Taxonomy == {"ConfigurationInvalid", "TemplateNotFound", "TemplateInvalid", "ContentCollection",
             "FixModeInvalid", "OutputFailed", "ValidationFailed"}

\* the clipboard write failed and the write to standard output after it too
FallbackFailed ==
    \E i \in 1..Len(log) :
        /\ log[i].ev = "clipboard" /\ ~log[i].ok
        /\ \E j \in (i + 1)..Len(log) : log[j].ev = "stdout" /\ ~log[j].ok

\* C21: the error taxonomy is closed: every error GeneratePrompt or
\* OutputPrompt returns is a PrompterError of one of the seven kinds and
\* carries guidance.
C21_ErrorTaxonomyIsClosed ==
    (runErr.stage \in {"generation", "output"})
        => /\ runErr.err.kind \in Taxonomy
           /\ runErr.err.guidance # <<>>

\* apart from the failed fallback to standard output, every error of the two
\* operations is of the taxonomy
TaxonomyClosedButForFallback ==
    FallbackFailed \/ C21_ErrorTaxonomyIsClosed

\* a warning follows the failed clipboard write before anything else is
\* written
ClipboardFailureWarned ==
    \A i \in 1..Len(log) :
        (log[i].ev = "clipboard" /\ ~log[i].ok /\ i < Len(log)) => log[i + 1].ev = "warn"

\* a template that was left out was warned about
SkippedTemplateWarned ==
    (gen.pre.state = "warned" \/ gen.post.state = "warned") => Warned

\* fix mode went on with the default opener because fix.md could not be read
FixMdUnreadable ==
    /\ gen.mode = "fix"
    /\ runErr.stage # "generation"
    /\ tplFS.fixmd.exists
    /\ ~tplFS.fixmd.readable

\* fix mode went on with a capture of a command that could not be started
RerunNotStarted == gen.capture.executed /\ ~gen.shell.started

\* C22: no error is dropped without a word: wherever an operation fails and
\* the run goes on (a template left out, a failed clipboard write, a fix.md
\* that cannot be read, a re-run command that cannot be started), a warning
\* is emitted.
C22_RecoveredErrorsAreWarned ==
    /\ ClipboardFailureWarned
    /\ SkippedTemplateWarned
    /\ FixMdUnreadable => Warned
    /\ RerunNotStarted => Warned

\* the recoveries that do warn
WarnedRecoveries == ClipboardFailureWarned /\ SkippedTemplateWarned

(***************************************************************************)
(* Properties of the interactive mode, checked under Spec.                 *)
(***************************************************************************)
\* the interactive mode of the run has been resolved
ModeResolved == pc \in {"collect", "generate", "output", "done"} /\ runErr.stage \notin {"flags", "configuration"}

NoModeFlag == DOMAIN cli.flags \cap {"interactive", "yes"} = {}

\* what the configuration file says of interactive_default, interactive
\* where it says nothing
FileInteractiveDefault ==
    IF world.file.state = "ok" /\ world.file.vals["interactive_default"].set
    THEN world.file.vals["interactive_default"].val = <<"t", "r", "u", "e">>
    ELSE TRUE

BaseRequired == <<"b", "a", "s", "e", "_", "p", "r", "o", "m", "p", "t">>

\* C23: without --interactive and --yes the mode of the run is the
\* interactive_default of the configuration, which is what the
\* configuration file says and interactive without one, so that prompter
\* run with nothing at all asks for the base prompt and does not fail
\* validation; --interactive makes the run interactive and --yes
\* non-interactive whatever the configuration says.
C23_InteractiveByDefault ==
    ModeResolved
        => /\ ("interactive" \in DOMAIN cli.flags) => request.Interactive
           /\ ("yes" \in DOMAIN cli.flags) => ~request.Interactive
           /\ NoModeFlag => request.Interactive = cfg.InteractiveDefault
           /\ NoModeFlag => request.Interactive = FileInteractiveDefault
           /\ (cli = NoCli /\ world.file.state = "missing")
                 => ~(runErr.stage = "generation" /\ Contains(runErr.err.msg, BaseRequired))

\* what holds of the mode: the flags decide, and without them the
\* InteractiveDefault of the loaded configuration
ModeFollowsFlagsThenConfig ==
    ModeResolved
        => /\ ("interactive" \in DOMAIN cli.flags) => request.Interactive
           /\ ("yes" \in DOMAIN cli.flags) => ~request.Interactive
           /\ NoModeFlag => request.Interactive = cfg.InteractiveDefault

(***************************************************************************)
(* The template helper functions, called on their own.                     *)
(***************************************************************************)
\* longest text handed to a helper
MaxText == 6

\* the lengths asked for go up to one more than the longest text
MaxLength == 7

\* and how far below zero
MaxNegative == 2

RECURSIVE TextsUpTo(_)
TextsUpTo(n) ==
    IF n = 0 THEN {Empty}
    ELSE TextsUpTo(n - 1) \cup {t \o <<c>> : t \in {u \in TextsUpTo(n - 1) : Len(u) = n - 1}, c \in {"a", "."}}

HelperInit ==
    /\ world = WorldOf({})
    /\ mgr = NewManager
    /\ script = ScriptOf({})
    /\ cstep = "idle"
    /\ cres = NoResults
    /\ RunIdle
    /\ sel = NoSelection
    /\ \E length \in (0 - MaxNegative)..MaxLength, text \in TextsUpTo(MaxText) :
          helper = [NoHelper EXCEPT !.step = "call", !.length = length, !.text = text]

\* a template calls {{truncate length text}}
CallTruncate ==
    /\ helper.step = "call"
    /\ helper' = [helper EXCEPT !.step = "returned",
                                !.panics = truncateFunc(helper.length, helper.text).panics,
                                !.result = truncateFunc(helper.length, helper.text).result]
    /\ UNCHANGED <<world, mgr, script, cstep, cres, pc, cli, request, cfg, runErr, generated, gen, log,
                   tplFS, tplSeen, sel>>

HelperNext == CallTruncate

SpecHelpers == HelperInit /\ [][HelperNext]_vars

\* the first n characters of a text
FirstOf(text, n) == [i \in 1..n |-> text[i]]

\* C24: truncate(length, text) returns the text unchanged when it has at
\* most length characters; else it returns exactly length characters: the
\* first length-3 of the text and "..." when length is more than 3, the
\* first length characters of the text otherwise; it returns a string for
\* every integer length, zero and negative ones included.
C24_TruncateKeepsLength ==
    (helper.step = "returned")
        => /\ ~helper.panics
           /\ (Len(helper.text) <= helper.length) => helper.result = helper.text
           /\ (Len(helper.text) > helper.length /\ helper.length > 3)
                 => helper.result = FirstOf(helper.text, helper.length - 3) \o <<".", ".", ".">>
           /\ (Len(helper.text) > helper.length /\ helper.length \in 0..3)
                 => helper.result = FirstOf(helper.text, helper.length)
           /\ (Len(helper.text) > helper.length /\ helper.length >= 0)
                 => Len(helper.result) = helper.length

\* what holds of truncate: the claim for every length that is not negative
TruncateOfNaturalLength == helper.length < 0 \/ C24_TruncateKeepsLength

(***************************************************************************)
(* Properties of GeneratePrompt as a function, checked under Spec.         *)
(***************************************************************************)
\* what GeneratePrompt returns for a request on a machine: whether it
\* succeeded, and the prompt
Returned(g) == [ok |-> g.ok, prompt |-> g.prompt]

CallGeneratePrompt(req, w, lc, fs, sh, answer) ==
    IF validateRequest(req, w).kind # "none" \/ ~lc.ok
    THEN [ok |-> FALSE, prompt |-> Empty]
    ELSE IF req.FixMode
    THEN Returned(generateFixModePrompt(fs, sh, applyConfigDefaults(req, lc.cfg), lc.cfg, answer, ConfigDirOf(w)))
    ELSE Returned(generateNormalPrompt(fs, applyConfigDefaults(req, lc.cfg), lc.cfg, ConfigDirOf(w)))

MaxKeys == 2

KeyEnter == <<"\r">>

KeyEscape == <<ByteEsc>>

KeyCtrlC == <<ByteCtrlC>>

KeyUp == <<ByteEsc, "[", "A">>

KeysPressed == {<<"1">>, <<"2">>, <<"3">>, <<"0">>, <<"a">>, KeyEnter, KeyEscape, KeyCtrlC, KeyUp}

KeySeqs == UNION {[1..n -> KeysPressed] : n \in 0..MaxKeys}

RECURSIVE Flatten(_)
Flatten(keys) == IF keys = <<>> THEN <<>> ELSE Head(keys) \o Flatten(Tail(keys))

\* the lists a selection is made from
OptionLists == {<<NoneOption>>, <<NoneOption, NameT>>, <<<<"n">>, NoneOption, NameP>>}

SelectInit ==
    /\ world = WorldOf({})
    /\ mgr = NewManager
    /\ script = ScriptOf({})
    /\ cstep = "idle"
    /\ cres = NoResults
    /\ RunIdle
    /\ helper = NoHelper
    /\ \E typed \in KeySeqs :
          \/ \E options \in OptionLists :
                sel = [NoSelection EXCEPT !.step = "reading", !.kind = "template", !.options = options,
                                          !.typed = typed, !.stdin = Flatten(typed)]
          \/ \E defaultValue \in BOOLEAN :
                sel = [NoSelection EXCEPT !.step = "reading", !.kind = "yesno", !.defaultValue = defaultValue,
                                          !.typed = typed, !.stdin = Flatten(typed)]

Returning(r) ==
    sel' = [sel EXCEPT !.stdin = Tail(sel.stdin),
                       !.step = IF r.returns THEN "returned" ELSE "reading",
                       !.ok = r.ok, !.selected = r.selected, !.cause = r.cause]

\* selectTemplateWithNumbers reads a byte
ReadTemplateKey ==
    /\ sel.step = "reading"
    /\ sel.kind = "template"
    /\ sel.stdin # <<>>
    /\ Returning(selectTemplateWithNumbers(sel.options, Head(sel.stdin)))
    /\ UNCHANGED <<world, mgr, script, cstep, cres, pc, cli, request, cfg, runErr, generated, gen, log,
                   tplFS, tplSeen, helper>>

\* selectYesNoWithNumbers reads a byte
ReadYesNoKey ==
    /\ sel.step = "reading"
    /\ sel.kind = "yesno"
    /\ sel.stdin # <<>>
    /\ Returning(selectYesNoWithNumbers(sel.defaultValue, Head(sel.stdin)))
    /\ UNCHANGED <<world, mgr, script, cstep, cres, pc, cli, request, cfg, runErr, generated, gen, log,
                   tplFS, tplSeen, helper>>

SelectNext == ReadTemplateKey \/ ReadYesNoKey

SpecSelect == SelectInit /\ [][SelectNext]_vars

\* what a key means to a selection: "pick" for the digit of an option, the
\* first option for Enter, "cancel" for Escape and Ctrl-C, nothing otherwise
Choices == IF sel.kind = "template" THEN sel.options ELSE <<YesText, NoText>>

FirstChoice == IF sel.kind = "template" THEN sel.options[1] ELSE IF sel.defaultValue THEN YesText ELSE NoText

Decides(key) ==
    \/ key \in {KeyEnter, KeyEscape, KeyCtrlC}
    \/ \E d \in 1..Len(Choices) : key = <<Digits[d]>>

\* the selection has read all that was typed, or has returned
Settled == sel.step = "returned" \/ (sel.step = "reading" /\ sel.stdin = <<>>)

\* C26: Escape or Ctrl-C ends a selection by number key with the error
\* "selection cancelled" and nothing selected; the digit of an option
\* selects it and Enter the first option; every other key leaves the
\* selection waiting and selects nothing.
C26_OnlyEscapeAndCtrlCCancel ==
    Settled
        => IF \E i \in 1..Len(sel.typed) : Decides(sel.typed[i])
           THEN LET i == CHOOSE i \in 1..Len(sel.typed) :
                            Decides(sel.typed[i]) /\ \A j \in 1..(i - 1) : ~Decides(sel.typed[j])
                    key == sel.typed[i]
                IN  /\ sel.step = "returned"
                    /\ IF key \in {KeyEscape, KeyCtrlC}
                       THEN ~sel.ok /\ sel.selected = Empty /\ sel.cause = SelectionCancelled
                       ELSE /\ sel.ok
                            /\ sel.selected = IF key = KeyEnter THEN FirstChoice
                                              ELSE Choices[CHOOSE d \in 1..Len(Choices) : key = <<Digits[d]>>]
           ELSE sel.step = "reading" /\ sel.selected = Empty

\* what holds of the selection: the claim as long as no key is pressed that
\* sends more than one byte
SingleByteKeysDecide ==
    (\E i \in 1..Len(sel.typed) : Len(sel.typed[i]) > 1) \/ C26_OnlyEscapeAndCtrlCCancel

(***************************************************************************)
(* Properties of the output stage, checked under Spec.                     *)
(***************************************************************************)
\* OutputPrompt has returned without an error
OutputSucceeded == pc = "done" /\ runErr = NoRunErr

ClipboardFailed == \E i \in 1..Len(log) : log[i].ev = "clipboard" /\ ~log[i].ok

\* C27: when OutputPrompt returns without an error for a request that asks
\* for the editor, the editor has been started exactly once, on every such
\* path, the one on which the clipboard write failed and the prompt went to
\* standard output included.
C27_EditorStartedOnEverySuccess ==
    (OutputSucceeded /\ request.EditorRequested)
        => Cardinality({i \in 1..Len(log) : log[i].ev = "editor" /\ log[i].ok}) = 1

\* what holds of the editor: it is started once when the first write
\* succeeded
EditorStartedUnlessFallback ==
    ClipboardFailed \/ C27_EditorStartedOnEverySuccess

(***************************************************************************)
(* Properties of the defaulting of the request, checked under Spec.        *)
(***************************************************************************)
\* the fields defaulting has no business with are the same in both requests
SameOutsideDefaults(old, new) ==
    /\ new.BasePrompt = old.BasePrompt
    /\ new.Files = old.Files
    /\ new.Directory = old.Directory
    /\ new.FixMode = old.FixMode
    /\ new.Editor = old.Editor
    /\ new.EditorRequested = old.EditorRequested
    /\ new.Interactive = old.Interactive
    /\ new.ForceInteractive = old.ForceInteractive
    /\ new.ForceNonInteractive = old.ForceNonInteractive
    /\ new.NumberSelect = old.NumberSelect
    /\ new.FromClipboard = old.FromClipboard
    /\ new.ConfigPath = old.ConfigPath

\* a field that is set keeps its value, an empty one takes the config's
GapFilled(old, new, configured) ==
    /\ old # Empty => new = old
    /\ old = Empty => new = configured

\* the step of GeneratePrompt that gets as far as assembling the prompt
DefaultsApplied == pc = "generate" /\ gen'.mode # ""

\* the configuration GeneratePrompt resolves for the request
ResolvedConfig == loadConfiguration(mgr, world, request.ConfigPath).cfg

FixPromptAssembled == gen.mode = "fix" /\ gen.capture.ok

\* the text is there and begins with something other than white space
StartsWithText(text) == Len(text) > 0 /\ text[1] \notin Whitespace

\* C29: the fix-mode prompt never begins with the blank-line separator and
\* has no empty part: whatever fix.md holds, an empty file or one of white
\* space only included, the prompt starts with the opener's text (not white
\* space) or directly with the captured content.
C29_FixPromptHasNoEmptyPart ==
    FixPromptAssembled
        => /\ StartsWithText(generated)
           /\ ~HasPrefix(generated, PartSeparator)
           /\ \/ generated = gen.capture.text
              \/ \E n \in 1..Len(generated) :
                    /\ StartsWithText(SubSeq(generated, 1, n))
                    /\ SubSeq(generated, n + 1, Len(generated)) = PartSeparator \o gen.capture.text

\* fix.md was read and held nothing but white space
FixMdIsBlank ==
    /\ tplFS.fixmd.exists
    /\ tplFS.fixmd.readable
    /\ \A i \in 1..Len(tplFS.fixmd.text) : tplFS.fixmd.text[i] \in Whitespace

\* what holds of the parts: the claim whenever fix.md is missing, unreadable
\* or has text in it
FixPromptHasNoEmptyPartUnlessBlankFixMd ==
    FixMdIsBlank \/ C29_FixPromptHasNoEmptyPart

(***************************************************************************)
(* Properties of the order of the stages of Run, checked under Spec.       *)
(***************************************************************************)
\* Run's LoadConfiguration has returned a configuration
ConfigurationLoaded == cfg # ZeroConfig

\* GeneratePrompt has returned a prompt and no error
PromptReturned ==
    /\ gen.called
    /\ gen.mode # ""
    /\ pc \in {"output", "done"}
    /\ runErr.stage \notin {"flags", "configuration", "collect", "generation"}

\* GeneratePrompt went on to assemble: templates were rendered, or the fix
\* content was captured
AssemblyBegun ==
    \/ gen.mode # ""
    \/ \E i \in 1..Len(log) : log[i].ev \in {"warn", "confirm", "exec"}

SinkWritten == \E i \in 1..Len(log) : log[i].ev \in SinkEvents

\* the request is one validation lets through
RequestAcceptable ==
    /\ request.Interactive \/ request.BasePrompt # Empty \/ request.FixMode \/ request.FromClipboard
    /\ request.Target # Empty
          => \/ request.Target \in {TargetClipboard, TargetStdout}
             \/ HasPrefix(request.Target, FilePrefix)
    /\ request.ConfigPath # Empty
          => world.file.at = request.ConfigPath /\ world.file.state # "missing"
    /\ request.PreTemplate # Empty => \E i \in 1..Len(request.PreTemplate) : request.PreTemplate[i] \notin Whitespace
    /\ request.PostTemplate # Empty => \E i \in 1..Len(request.PostTemplate) : request.PostTemplate[i] \notin Whitespace
    /\ ~(request.ForceInteractive /\ request.ForceNonInteractive)

\* C30: the stages of Run happen in the order configuration load, mode
\* resolution, input collection, prompt generation, output, each only after
\* the one before succeeded: no sink (clipboard, stdout, file, editor) is
\* written unless GeneratePrompt returned a prompt without error, and in
\* GeneratePrompt no template is rendered, no fix content captured and no
\* command executed unless the request passed validation and the
\* configuration loaded.
C30_StagesRunInOrder ==
    /\ pc \in {"resolve", "collect", "generate", "output"} => ConfigurationLoaded /\ runErr = NoRunErr
    /\ ModeResolved => ConfigurationLoaded
    /\ gen.called => ModeResolved /\ runErr.stage # "collect"
    /\ AssemblyBegun
          => /\ gen.called
             /\ RequestAcceptable
             /\ loadConfiguration(mgr, world, request.ConfigPath).ok
    /\ SinkWritten => PromptReturned
    /\ runErr.stage = "output" => PromptReturned
    /\ runErr.stage \in {"flags", "configuration", "collect", "generation"} => ~SinkWritten

\* a run got through all five stages and wrote the prompt to a sink
C30_Witness ==
    /\ pc = "done"
    /\ runErr = NoRunErr
    /\ PromptReturned
    /\ SinkWritten
    /\ generated # Empty

====
